---- MODULE Spec2Model ----
(***************************************************************************)
(* Verification model of the bakaos kernel core:                           *)
(*   - the mountable directory tree (filesystem-abstractions/src/tree.rs), *)
(*   - the RAM-file inode (same file),                                     *)
(*   - the memory space with its mapping areas (paging/src/memory.rs).     *)
(* Every subsystem has its own specification over its own variables.       *)
(***************************************************************************)
EXTENDS Integers, Sequences, FiniteSets, TLC

\* ------------------------------------------------------------------------
\* Bounds of the directory-tree model
\* ------------------------------------------------------------------------
\* number of tree nodes that can exist besides the 14 nodes of initialize()
MaxDyn == 3
\* number of strong references callers may hold at the same time
MaxHeld == 2
\* number of path segments after the leading separator
MaxPathLen == 3
\* depth of nested global mounts in the mount/umount pairing scenario
MaxNest == 3

\* capacity of the kernel message ring (4096 in the code), scaled
BUFFER_CAPACITY == 4
\* number of bytes written to the ring in one behaviour
MaxWritten == 6

NoNode == 0
NoName == "<none>"
NoErr == "Ok"

InitialDirs ==
    <<"boot", "dev", "etc", "home", "root", "opt", "mnt", "proc", "sys", "tmp", "run",
      "usr", "var">>

Nodes == 1..(Len(InitialDirs) + 1 + MaxDyn)

\* names at which the operations mount: "f" is an entry of the disk file
\* system, "m" is not
MountNames == {"f", "m"}

\* names the operations open: "a" and "f" are entries of the disk file system
OpenNames == {"a", "f", "", ".", ".."}

\* ------------------------------------------------------------------------
\* Backing inodes (IInode implementations outside the tree): a small disk
\* file system "d0" = { a/ = "d1" { f = "f2" }, f = "f1" }
\* ------------------------------------------------------------------------
EmptyMap == [x \in {} |-> NoNode]

MapPut(m, k, v) == [y \in (DOMAIN m) \cup {k} |-> IF y = k THEN v ELSE m[y]]

MapRemove(m, k) == [y \in (DOMAIN m) \ {k} |-> m[y]]

MapGet(m, k) == IF k \in DOMAIN m THEN m[k] ELSE NoNode

DiskInodes == {"d0", "d1", "f1", "f2"}

InodeEntries(i) ==
    CASE i = "d0" -> MapPut(MapPut(EmptyMap, "a", "d1"), "f", "f1")
      [] i = "d1" -> MapPut(EmptyMap, "f", "f2")
      [] OTHER -> EmptyMap

InodeType(i) == IF i \in {"d0", "d1"} THEN "Directory" ELSE "File"

InodeFilename(i) ==
    CASE i = "d0" -> ""
      [] i = "d1" -> "a"
      [] OTHER -> "f"

\* IInode::lookup of a backing inode
InodeLookup(i, name) ==
    IF InodeType(i) # "Directory" THEN [err |-> "NotADirectory", inode |-> ""]
    ELSE IF name \in DOMAIN InodeEntries(i)
         THEN [err |-> NoErr, inode |-> InodeEntries(i)[name]]
         ELSE [err |-> "NotFound", inode |-> ""]

\* the order in which a sequence enumerates a finite set of strings
RECURSIVE SetToSeq(_)
SetToSeq(S) ==
    IF S = {} THEN <<>>
    ELSE LET x == CHOOSE y \in S : TRUE IN <<x>> \o SetToSeq(S \ {x})

\* IInode::read_dir of a backing inode
InodeReadDir(i) ==
    LET names == SetToSeq(DOMAIN InodeEntries(i))
    IN [k \in 1..Len(names) |->
           [filename |-> names[k], entry_type |-> InodeType(InodeEntries(i)[names[k]])]]

\* ------------------------------------------------------------------------
\* Directory tree: state
\* ------------------------------------------------------------------------
VARIABLES
    node,      \* DirectoryTreeNode objects: parent, name, meta, mounted, opened, shadowed
    ROOT,      \* the global root (NoNode = None)
    held,      \* strong references held outside the tree (callers, fd table, cwd)
    hung,      \* a hart spins on a SpinMutex it already holds
    last,      \* the last operation, its arguments and its result
    mstack     \* the mounts not yet unmounted (mount/umount pairing scenarios)

treeVars == <<node, ROOT, held, hung, last, mstack>>

\* ------------------------------------------------------------------------
\* RAM file: state
\* ------------------------------------------------------------------------
VARIABLES
    file,      \* RamFileInodeInner: frames (their PPNs), size
    phys,      \* physical memory: the bytes of every page frame
    panicked,  \* the kernel panicked
    io         \* the last writeat/readat, its arguments and its result

ramVars == <<file, phys, panicked, io>>

\* ------------------------------------------------------------------------
\* Memory space: state
\* ------------------------------------------------------------------------
VARIABLES
    space,     \* MemorySpace of a task: page_table, mapping_areas, brk_area_idx
    clone,     \* the MemorySpace clone_existing made of it
    pages,     \* what each page frame of the frame allocator holds
    mlast      \* the last memory-space operation, its arguments and its result

memVars == <<space, clone, pages, mlast>>

\* ------------------------------------------------------------------------
\* Task control block: state
\* ------------------------------------------------------------------------
VARIABLES
    brk_pos,   \* tcb.brk_pos: the byte-granular program break
    blast      \* the last two sys_brk calls, their arguments and results

taskVars == <<brk_pos, blast>>

\* ------------------------------------------------------------------------
\* Memory-space builder: state
\* ------------------------------------------------------------------------
VARIABLES
    built      \* the last from_elf / init_stack: its input and the builder

builderVars == <<built>>

\* ------------------------------------------------------------------------
\* File descriptors: state
\* ------------------------------------------------------------------------
VARIABLES
    fd_table,  \* ctx.fd_table: the descriptor of every slot
    fdpair,    \* the FdPair in user memory that sys_pipe2 fills
    olast      \* the last system call on files, its arguments and its result

fdVars == <<fd_table, fdpair, olast>>

\* ------------------------------------------------------------------------
\* Tasks and harts: state
\* ------------------------------------------------------------------------
VARIABLES
    task_status,  \* tcb.task_status
    exit_code,    \* tcb.exit_code
    now,          \* current_timespec(): the clock
    running,      \* the system call the task is in: its handler and its position
    seen,         \* what the other hart has read from the task control block
    harts         \* the harts inside a mount call: the call and its position

schedVars == <<task_status, exit_code, now, running, seen>>
raceVars == <<harts>>

\* ------------------------------------------------------------------------
\* Kernel message ring: state
\* ------------------------------------------------------------------------
VARIABLES
    dmesg,     \* DMESG_BUFFER: buffer, head, tail, len
    written,   \* every byte given to push_message so far, in write order
    klast      \* the last call on the ring, its arguments and its result

kmsgVars == <<dmesg, written, klast>>

concVars == <<schedVars, raceVars, kmsgVars>>

\* Every specification is about one subsystem and leaves the others alone.
vars == <<treeVars, ramVars, memVars, taskVars, builderVars, fdVars, concVars>>
exceptTree == <<ramVars, memVars, taskVars, builderVars, fdVars, concVars>>
exceptRam == <<treeVars, memVars, taskVars, builderVars, fdVars, concVars>>
exceptMem == <<treeVars, ramVars, taskVars, builderVars, fdVars, concVars>>

DeadNode ==
    [live |-> FALSE, parent |-> NoNode, name |-> "", meta |-> "Empty",
     mounted |-> EmptyMap, opened |-> EmptyMap, shadowed |-> NoNode, via |-> ""]

\* DirectoryTreeNode::from_empty.  The field via is no field of the code: it
\* records whether a mount ("mount") or open_child ("open") made the node.
from_empty(parent, name) ==
    [live |-> TRUE, parent |-> parent, name |-> name, meta |-> "Empty",
     mounted |-> EmptyMap, opened |-> EmptyMap, shadowed |-> NoNode, via |-> "mount"]

\* DirectoryTreeNode::from_inode; meta_ok says whether inode_meta is Some
from_inode(parent, inode, meta_ok, name) ==
    [live |-> TRUE, parent |-> parent,
     name |-> IF name # NoName THEN name
              ELSE IF meta_ok THEN InodeFilename(inode) ELSE "",
     meta |-> inode, mounted |-> EmptyMap, opened |-> EmptyMap, shadowed |-> NoNode,
     via |-> IF name = NoName /\ meta_ok THEN "open" ELSE "mount"]

\* A tree value t = [node, root, held, hung]; the operations are functions on it.
Tree(n, r, h, g) == [node |-> n, root |-> r, held |-> h, hung |-> g]

\* the strong count of the Arc of node n is not zero: a caller, ROOT, a
\* child's parent field, a shadowed field or a mounted map refers to n
Referenced(t, n) ==
    \/ t.held[n] > 0
    \/ t.root = n
    \/ \E c \in Nodes : t.node[c].parent = n \/ t.node[c].shadowed = n
    \/ \E p \in Nodes : \E x \in DOMAIN t.node[p].mounted : t.node[p].mounted[x] = n

\* Weak::upgrade succeeds on a node that has not been dropped
Upgrades(t, n) == n # NoNode /\ t.node[n].live

\* slots of the arena that hold no node and that no Weak entry names
FreeSlots(t) ==
    {n \in Nodes : ~t.node[n].live
                   /\ \A p \in Nodes : \A x \in DOMAIN t.node[p].opened :
                          t.node[p].opened[x] # n}

CanAlloc(t) == FreeSlots(t) # {}

Alloc(t) == CHOOSE n \in FreeSlots(t) : \A m \in FreeSlots(t) : n <= m

\* ------------------------------------------------------------------------
\* Arc release and impl Drop for DirectoryTreeNode
\* ------------------------------------------------------------------------
RECURSIVE Collect(_, _, _)
RECURSIVE DropNode(_, _, _)
RECURSIVE DropMounted(_, _, _, _)
RECURSIVE CloseLocked(_, _, _, _)

\* A strong reference to n has just been removed: run Drop when none is left.
\* locks = the node mutexes the hart holds at that moment.
Collect(t, n, locks) ==
    IF t.hung \/ n = NoNode THEN t
    ELSE IF ~t.node[n].live \/ Referenced(t, n) THEN t
    ELSE DropNode(t, n, locks)

\* DirectoryTreeNode::close(name) on p, called while the hart holds `locks`
CloseLocked(t, p, name, locks) ==
    IF p \in locks THEN [t EXCEPT !.hung = TRUE]
    ELSE LET unmounted == MapGet(t.node[p].mounted, name)
             t1 == [t EXCEPT !.node[p].opened = MapRemove(@, name),
                             !.node[p].mounted = MapRemove(@, name)]
         IN  \* the removed Arc is dropped while p's guard is alive
             Collect(t1, unmounted, locks \cup {p})

\* the mounted map of a dropped node is dropped entry by entry
DropMounted(t, n, names, locks) ==
    IF t.hung \/ names = <<>> THEN t
    ELSE LET c == t.node[n].mounted[Head(names)]
             t1 == [t EXCEPT !.node[n].mounted = MapRemove(@, Head(names))]
         IN DropMounted(Collect(t1, c, locks), n, Tail(names), locks)

\* Drop::drop (parent.close(self.name())), then the fields in declaration
\* order: parent, inner (mounted, opened, shadowed)
DropNode(t, n, locks) ==
    LET p == t.node[n].parent
        t1 == IF p # NoNode THEN CloseLocked(t, p, t.node[n].name, locks) ELSE t
    IN IF t1.hung THEN t1
       ELSE LET t2 == [t1 EXCEPT !.node[n].parent = NoNode, !.node[n].live = FALSE]
                t3 == Collect(t2, p, locks)
                t4 == DropMounted(t3, n, SetToSeq(DOMAIN t3.node[n].mounted), locks)
                s == t4.node[n].shadowed
                t5 == [t4 EXCEPT !.node[n] = DeadNode]
            IN IF t3.hung THEN t3
               ELSE IF t4.hung THEN t4
               ELSE Collect(t5, s, locks)

\* a caller drops one of its Arcs
Release(t, n) ==
    IF t.hung THEN t ELSE Collect([t EXCEPT !.held[n] = @ - 1], n, {})

\* a caller clones an Arc
Hold(t, n) == [t EXCEPT !.held[n] = @ + 1]

\* ------------------------------------------------------------------------
\* Directory tree: operations.  Each returns [t, ret, err]; err = Bound means
\* that the arena of the model is exhausted (the step is not taken).
\* ------------------------------------------------------------------------
Bound == "<bound>"

R(t, ret, err) == [t |-> t, ret |-> ret, err |-> err]

\* DirectoryTreeNode::mount_as(inode, name); the returned Arc is held by the caller
mount_as(t, P, inode, nameOpt) ==
    IF ~CanAlloc(t) THEN R(t, NoNode, Bound)
    ELSE
    LET name == IF nameOpt # NoName THEN nameOpt ELSE InodeFilename(inode)
        new == Alloc(t)
        t1 == [t EXCEPT !.node[new] = from_inode(P, inode, TRUE, name)]
        mounted == MapGet(t1.node[P].mounted, name)
        t2 == IF mounted # NoNode
              THEN [t1 EXCEPT !.node[P].mounted = MapRemove(@, name),
                              !.node[new].shadowed = mounted]
              ELSE t1
        old == MapGet(t2.node[P].mounted, name)
        t3 == [t2 EXCEPT !.node[P].mounted = MapPut(@, name, new)]
    IN IF old = NoNode THEN R(Hold(t3, new), new, NoErr)
       ELSE R(Collect(t3, old, {P}), NoNode, "FileExists")

\* DirectoryTreeNode::mount_empty(name)
mount_empty(t, P, name) ==
    IF ~CanAlloc(t) THEN R(t, NoNode, Bound)
    ELSE
    LET new == Alloc(t)
        t1 == [t EXCEPT !.node[new] = from_empty(P, name)]
        mounted == MapGet(t1.node[P].mounted, name)
        t2 == IF mounted # NoNode
              THEN [t1 EXCEPT !.node[P].mounted = MapRemove(@, name),
                              !.node[new].shadowed = mounted]
              ELSE t1
        old == MapGet(t2.node[P].mounted, name)
        t3 == [t2 EXCEPT !.node[P].mounted = MapPut(@, name, new)]
    IN IF old = NoNode THEN R(Hold(t3, new), new, NoErr)
       ELSE R(Collect(t3, old, {P}), NoNode, "FileExists")

\* umount_at that drops the shadowed node instead of mounting it again
umount_at_forgets_shadowed(t, P, name) ==
    LET umounted == MapGet(t.node[P].mounted, name)
        t1 == [t EXCEPT !.node[P].mounted = MapRemove(@, name)]
        shadowed == t1.node[umounted].shadowed
        t2 == [t1 EXCEPT !.node[umounted].shadowed = NoNode]
    IN IF umounted = NoNode THEN R(t, NoNode, "FileNotExists")
       ELSE R(Collect(Hold(t2, umounted), shadowed, {}), umounted, NoErr)

\* DirectoryTreeNode::umount_at(name); the returned Arc is held by the caller
umount_at(t, P, name) ==
    LET umounted == MapGet(t.node[P].mounted, name)
        t1 == [t EXCEPT !.node[P].mounted = MapRemove(@, name)]
        shadowed == t1.node[umounted].shadowed
        t2 == [t1 EXCEPT !.node[umounted].shadowed = NoNode]
        t3 == IF shadowed # NoNode
              THEN [t2 EXCEPT !.node[P].mounted = MapPut(@, name, shadowed)]
              ELSE t2
    IN IF umounted = NoNode THEN R(t, NoNode, "FileNotExists")
       ELSE R(Hold(t3, umounted), umounted, NoErr)

\* DirectoryTreeNode::close(name) called by a hart that holds no node mutex
close(t, P, name) ==
    [t |-> CloseLocked(t, P, name, {}),
     closed |-> name \in DOMAIN t.node[P].opened,
     unmounted |-> name \in DOMAIN t.node[P].mounted]

\* IInode::lookup of a tree node
lookup(t, P, name) ==
    IF t.node[P].meta = "Empty" THEN [err |-> "NotFound", inode |-> ""]
    ELSE InodeLookup(t.node[P].meta, name)

\* open_child that looks into the opened map before the mounted map
open_child_opened_first(t, P, name) ==
    IF name = "." \/ name = "" THEN R(Hold(t, P), P, NoErr)
    ELSE IF name = ".."
    THEN LET up == IF t.node[P].parent # NoNode THEN t.node[P].parent ELSE P
         IN R(Hold(t, up), up, NoErr)
    ELSE
    LET mounted == MapGet(t.node[P].mounted, name)
        opened == MapGet(t.node[P].opened, name)
        found == lookup(t, P, name)
    IN IF Upgrades(t, opened) THEN R(Hold(t, opened), opened, NoErr)
       ELSE IF mounted # NoNode THEN R(Hold(t, mounted), mounted, NoErr)
       ELSE IF found.err # NoErr THEN R(t, NoNode, found.err)
       ELSE IF ~CanAlloc(t) THEN R(t, NoNode, Bound)
       ELSE LET new == Alloc(t)
                t1 == [t EXCEPT !.node[new] = from_inode(P, found.inode, TRUE, NoName),
                                !.node[P].opened = MapPut(@, name, new)]
            IN R(Hold(t1, new), new, NoErr)

\* open_child that resolves ".." to the node itself
open_child_parent_is_self(t, P, name) ==
    IF name = "." \/ name = "" \/ name = ".." THEN R(Hold(t, P), P, NoErr)
    ELSE
    LET mounted == MapGet(t.node[P].mounted, name)
        opened == MapGet(t.node[P].opened, name)
        found == lookup(t, P, name)
    IN IF mounted # NoNode THEN R(Hold(t, mounted), mounted, NoErr)
       ELSE IF Upgrades(t, opened) THEN R(Hold(t, opened), opened, NoErr)
       ELSE IF found.err # NoErr THEN R(t, NoNode, found.err)
       ELSE IF ~CanAlloc(t) THEN R(t, NoNode, Bound)
       ELSE LET new == Alloc(t)
                t1 == [t EXCEPT !.node[new] = from_inode(P, found.inode, TRUE, NoName),
                                !.node[P].opened = MapPut(@, name, new)]
            IN R(Hold(t1, new), new, NoErr)

\* DirectoryTreeNode::open_child(name); the returned Arc is held by the caller
open_child(t, P, name) ==
    IF name = "." \/ name = "" THEN R(Hold(t, P), P, NoErr)
    ELSE IF name = ".."
    THEN LET up == IF t.node[P].parent # NoNode THEN t.node[P].parent ELSE P
         IN R(Hold(t, up), up, NoErr)
    ELSE
    LET mounted == MapGet(t.node[P].mounted, name)
        opened == MapGet(t.node[P].opened, name)
        found == lookup(t, P, name)
    IN IF mounted # NoNode THEN R(Hold(t, mounted), mounted, NoErr)
       ELSE IF Upgrades(t, opened) THEN R(Hold(t, opened), opened, NoErr)
       ELSE IF found.err # NoErr THEN R(t, NoNode, found.err)
       ELSE IF ~CanAlloc(t) THEN R(t, NoNode, Bound)
       ELSE LET new == Alloc(t)
                t1 == [t EXCEPT !.node[new] = from_inode(P, found.inode, TRUE, NoName),
                                !.node[P].opened = MapPut(@, name, new)]
            IN R(Hold(t1, new), new, NoErr)

\* A path is the sequence of its segments between separators: "/mnt/a" is
\* <<"", "mnt", "a">>, "a/../b" is <<"a", "..", "b">>, "/" is <<"", "">>.
is_path_fully_qualified(path) == Len(path) >= 2 /\ path[1] = ""

RECURSIVE SkipEmpty(_)
SkipEmpty(parts) ==
    IF parts # <<>> /\ Head(parts) = "" THEN SkipEmpty(Tail(parts)) ELSE parts

\* path.trim_start_matches(SEPARATOR).is_empty()
IsRootPath(path) == \A k \in 1..Len(path) : path[k] = ""

get_directory_name(path) ==
    IF Len(path) = 1 THEN <<"">> ELSE SubSeq(path, 1, Len(path) - 1)

get_filename(path) == path[Len(path)]

\* the loop of global_open; the walker holds `current`
RECURSIVE Walk(_, _, _)
RECURSIVE WalkInto(_, _, _)

\* `current = current.open_child(part)?`: t is the state after open_child
\* returned `next` and the previous `current` was dropped
WalkInto(t, next, parts) ==
    IF t.hung THEN R(t, NoNode, NoErr) ELSE Walk(t, next, parts)

\* r is the result of current.open_child(part)
WalkOpened(r, current, parts) ==
    IF r.err # NoErr THEN R(Release(r.t, current), NoNode, r.err)
    ELSE WalkInto(Release(r.t, current), r.ret, parts)

Walk(t, current, parts) ==
    IF parts = <<>> THEN R(t, current, NoErr)
    ELSE WalkOpened(open_child(t, current, Head(parts)), current, Tail(parts))

\* global_open: the walk of the path's segments from the node `root`
WalkFrom(t, root, path) == Walk(Hold(t, root), root, SkipEmpty(path))

\* global_open(path, relative_to); relative_to = NoNode is None
global_open(t, path, relative_to) ==
    IF ~is_path_fully_qualified(path) /\ relative_to = NoNode
    THEN R(t, NoNode, "InvalidInput")
    ELSE WalkFrom(t, IF is_path_fully_qualified(path) THEN t.root ELSE relative_to,
                  path)

\* global_mount: m is the result of parent.mount_as(inode, name); `parent`
\* and `root` go out of scope
Mounted(t, m, parent, root) ==
    IF m.err = Bound THEN R(t, NoNode, Bound)
    ELSE R(Release(Release(m.t, parent), root), m.ret, m.err)

\* global_mount: parent is the result of global_open(parent_path, Some(&root))
MountInto(t, parent, root, inode, name) ==
    IF parent.err = Bound THEN R(t, NoNode, Bound)
    ELSE IF parent.t.hung THEN R(parent.t, NoNode, NoErr)
    ELSE IF parent.err # NoErr THEN R(Release(parent.t, root), NoNode, "FileNotExists")
    ELSE Mounted(t, mount_as(parent.t, parent.ret, inode, name), parent.ret, root)

\* global_mount of a path other than "/": root is the node the path starts at
MountUnder(t, root, inode, path) ==
    MountInto(t, global_open(Hold(t, root), get_directory_name(path), root), root,
              inode, get_filename(path))

\* global_mount(inode, path, relative_to)
global_mount(t, inode, path, relative_to) ==
    IF is_path_fully_qualified(path) /\ IsRootPath(path)
    THEN IF ~CanAlloc(t) THEN R(t, NoNode, Bound)
         ELSE LET new == Alloc(t)
                  t1 == [t EXCEPT
                            !.node[new] =
                                [from_inode(NoNode, inode, FALSE, NoName)
                                    EXCEPT !.shadowed = t.root],
                            !.root = new]
              IN R(Hold(t1, new), new, NoErr)
    ELSE IF ~is_path_fully_qualified(path) /\ relative_to = NoNode
    THEN R(t, NoNode, "InvalidInput")
    ELSE MountUnder(t, IF is_path_fully_qualified(path) THEN t.root ELSE relative_to,
                    inode, path)

\* global_umount: u is the result of parent.umount_at(name); `parent` and
\* `root` go out of scope
Umounted(u, parent, root) ==
    R(Release(Release(u.t, parent), root), u.ret, u.err)

\* global_umount: parent is the result of global_open(parent_path, Some(&root))
UmountFrom(t, parent, root, name) ==
    IF parent.err = Bound THEN R(t, NoNode, Bound)
    ELSE IF parent.t.hung THEN R(parent.t, NoNode, NoErr)
    ELSE IF parent.err # NoErr THEN R(Release(parent.t, root), NoNode, "FileNotExists")
    ELSE Umounted(umount_at(parent.t, parent.ret, name), parent.ret, root)

\* global_umount of a path other than "/": root is the node the path starts at
UmountUnder(t, root, path) ==
    UmountFrom(t, global_open(Hold(t, root), get_directory_name(path), root), root,
               get_filename(path))

\* global_umount that makes an empty root instead of restoring the shadowed one
global_umount_fresh_root(t, path, relative_to) ==
    IF is_path_fully_qualified(path) /\ IsRootPath(path)
    THEN IF ~CanAlloc(t) THEN R(t, NoNode, Bound)
         ELSE LET new == Alloc(t)
                  t1 == [t EXCEPT !.node[new] = from_empty(NoNode, ""), !.root = new]
              IN R(Collect(Hold(t1, new), t.root, {}), new, NoErr)
    ELSE IF ~is_path_fully_qualified(path) /\ relative_to = NoNode
    THEN R(t, NoNode, "InvalidInput")
    ELSE UmountUnder(t, IF is_path_fully_qualified(path) THEN t.root ELSE relative_to,
                     path)

\* global_umount(path, relative_to)
global_umount(t, path, relative_to) ==
    IF is_path_fully_qualified(path) /\ IsRootPath(path)
    THEN LET root_node == t.root
             shadowed == t.node[root_node].shadowed
         IN IF shadowed # NoNode
            THEN LET t1 == [t EXCEPT !.node[root_node].shadowed = NoNode,
                                     !.root = shadowed]
                 IN R(Collect(Hold(t1, shadowed), root_node, {}), shadowed, NoErr)
            ELSE IF ~CanAlloc(t) THEN R(t, NoNode, Bound)
            ELSE LET new == Alloc(t)
                     t1 == [t EXCEPT !.node[new] = from_empty(NoNode, ""),
                                     !.root = new]
                 IN R(Collect(Hold(t1, new), root_node, {}), new, NoErr)
    ELSE IF ~is_path_fully_qualified(path) /\ relative_to = NoNode
    THEN R(t, NoNode, "InvalidInput")
    ELSE UmountUnder(t, IF is_path_fully_qualified(path) THEN t.root ELSE relative_to,
                     path)

\* DirectoryTreeNode::read_dir
read_dir(t, P) ==
    LET mounted == t.node[P].mounted
        names == SetToSeq(DOMAIN mounted)
        mounted_entries ==
            [k \in 1..Len(names) |->
                [filename |-> names[k],
                 entry_type |-> IF t.node[mounted[names[k]]].meta = "Empty"
                                THEN "Directory"
                                ELSE InodeType(t.node[mounted[names[k]]].meta)]]
        keep(entry) == entry.filename \notin DOMAIN mounted
    IN IF t.node[P].meta = "Empty" THEN [err |-> NoErr, entries |-> mounted_entries]
       ELSE IF InodeType(t.node[P].meta) # "Directory"
       THEN [err |-> "NotADirectory", entries |-> <<>>]
       ELSE [err |-> NoErr,
             entries |-> InodeReadDir(t.node[P].meta) \o SelectSeq(mounted_entries, keep)]

\* ------------------------------------------------------------------------
\* Directory tree: initial state (initialize()) and actions
\* ------------------------------------------------------------------------
RECURSIVE MountInitialDirs(_, _, _)
MountInitialDirs(t, root, k) ==
    IF k > Len(InitialDirs) THEN t
    ELSE LET m == mount_empty(t, root, InitialDirs[k])
         IN MountInitialDirs(Release(m.t, m.ret), root, k + 1)

\* initialize() that leaves out the first initial directory
initialize_skips_first ==
    LET empty == Tree([n \in Nodes |-> DeadNode], NoNode, [n \in Nodes |-> 0], FALSE)
        root == Alloc(empty)
        t1 == Hold([empty EXCEPT !.node[root] = from_empty(NoNode, "")], root)
        t2 == MountInitialDirs(t1, root, 2)
    IN [t2 EXCEPT !.root = root, !.held[root] = @ - 1]

\* initialize()
initialize ==
    LET empty == Tree([n \in Nodes |-> DeadNode], NoNode, [n \in Nodes |-> 0], FALSE)
        root == Alloc(empty)
        t1 == Hold([empty EXCEPT !.node[root] = from_empty(NoNode, "")], root)
        t2 == MountInitialDirs(t1, root, 1)
    IN [t2 EXCEPT !.root = root, !.held[root] = @ - 1]

NoLast ==
    [op |-> "initialize", p |-> NoNode, name |-> "", inode |-> "",
     ret |-> NoNode, err |-> NoErr, was_mounted |-> NoNode, was_opened |-> NoNode,
     pair |-> FALSE, pair_was |-> NoNode, pair_new |-> NoNode, pair_inode |-> "",
     ret2 |-> NoNode, err2 |-> NoErr, cancels |-> FALSE, entries |-> <<>>,
     popped |-> [root |-> NoNode, mounted |-> EmptyMap], unwound |-> 0,
     was |-> [mounted |-> EmptyMap, opened |-> EmptyMap], meta_ok |-> TRUE,
     answer |-> NoErr]

TreeInit ==
    /\ node = initialize.node
    /\ ROOT = initialize.root
    /\ held = initialize.held
    /\ hung = initialize.hung
    /\ last = NoLast
    /\ mstack = <<>>

Cur == Tree(node, ROOT, held, hung)

TotalHeld(t) == Cardinality(UNION {{<<n, k>> : k \in 1..t.held[n]} : n \in Nodes})

\* the nodes a caller can name: the global root and the nodes it holds
Callers == {ROOT} \cup {n \in Nodes : held[n] > 0}

Becomes(t, l) ==
    /\ node' = t.node
    /\ ROOT' = t.root
    /\ held' = t.held
    /\ hung' = t.hung
    /\ last' = l
    /\ UNCHANGED mstack
    /\ UNCHANGED exceptTree

MountableInodes == {"d0"}

MountAs(P, inode, name) ==
    /\ ~hung
    /\ TotalHeld(Cur) < MaxHeld
    /\ \E r \in {mount_as(Cur, P, inode, name)} :
          /\ r.err # Bound
          /\ Becomes(r.t, [NoLast EXCEPT !.op = "mount_as", !.p = P, !.name = name,
                                         !.inode = inode, !.ret = r.ret, !.err = r.err,
                                         !.was_mounted = MapGet(node[P].mounted, name)])

UmountAt(P, name) ==
    /\ ~hung
    /\ TotalHeld(Cur) < MaxHeld
    /\ \E r \in {umount_at(Cur, P, name)} :
       LET follows == /\ last.op = "mount_as"
                      /\ last.err = NoErr
                      /\ last.p = P
                      /\ last.name = name
       IN Becomes(r.t, [NoLast EXCEPT !.op = "umount_at", !.p = P, !.name = name,
                                      !.ret = r.ret, !.err = r.err,
                                      !.was_mounted = MapGet(node[P].mounted, name),
                                      !.pair = follows,
                                      !.pair_was = IF follows THEN last.was_mounted
                                                   ELSE NoNode,
                                      !.pair_new = IF follows THEN last.ret ELSE NoNode,
                                      !.pair_inode = IF follows THEN last.inode ELSE ""])

OpenChild(P, name) ==
    /\ ~hung
    /\ TotalHeld(Cur) < MaxHeld
    /\ \E r \in {open_child(Cur, P, name)} :
          /\ r.err # Bound
          /\ Becomes(r.t, [NoLast EXCEPT !.op = "open_child", !.p = P, !.name = name,
                                         !.ret = r.ret, !.err = r.err,
                                         !.was_mounted = MapGet(node[P].mounted, name),
                                         !.was_opened =
                                             IF Upgrades(Cur, MapGet(node[P].opened, name))
                                             THEN node[P].opened[name] ELSE NoNode])

\* a caller drops an Arc it holds
ReleaseNode(n) ==
    /\ ~hung
    /\ held[n] > 0
    /\ Becomes(Release(Cur, n), [NoLast EXCEPT !.op = "release", !.p = n,
                                               !.name = node[n].name,
                                               !.ret = node[n].parent])

ReadDir(P) ==
    /\ ~hung
    /\ LET r == read_dir(Cur, P)
       IN Becomes(Cur, [NoLast EXCEPT !.op = "read_dir", !.p = P, !.err = r.err,
                                      !.entries = r.entries])

GlobalMount(inode, path) ==
    /\ ~hung
    /\ TotalHeld(Cur) < MaxHeld
    /\ \E r \in {global_mount(Cur, inode, path, NoNode)} :
          /\ r.err # Bound
          /\ Becomes(r.t, [NoLast EXCEPT !.op = "global_mount",
                                         !.inode = inode, !.ret = r.ret, !.err = r.err])

GlobalUmount(path) ==
    /\ ~hung
    /\ TotalHeld(Cur) < MaxHeld
    /\ \E r \in {global_umount(Cur, path, NoNode)} :
          /\ r.err # Bound
          /\ Becomes(r.t, [NoLast EXCEPT !.op = "global_umount",
                                         !.ret = r.ret, !.err = r.err])

RootPath == <<"", "">>

\* The environment of this specification calls the node operations with any
\* node it holds, mounts the disk file system as a new root, and unmounts a
\* root only when an earlier root mount is there to be undone.
TreeNext ==
    \/ \E P \in Callers : \E inode \in MountableInodes : \E name \in MountNames :
           MountAs(P, inode, name)
    \/ \E P \in Callers : \E name \in MountNames : UmountAt(P, name)
    \/ \E P \in Callers : \E name \in OpenNames : OpenChild(P, name)
    \/ \E n \in Nodes : ReleaseNode(n)
    \/ \E P \in Callers : ReadDir(P)
    \/ \E inode \in MountableInodes : GlobalMount(inode, RootPath)
    \/ (node[ROOT].shadowed # NoNode /\ GlobalUmount(RootPath))

IsPlainName(name) == name \notin {"", ".", ".."}

\* C1: mount_as(I, x) on P directly followed by umount_at(x) on P returns the
\* node that the mount made around I; the node that was mounted at x before
\* the mount is P's mounted child at x again, and x is not mounted in P when
\* nothing was mounted there before.
MountUmountRoundTrip ==
    (last.op = "umount_at" /\ last.pair) =>
        /\ last.err = NoErr
        /\ last.ret = last.pair_new
        /\ node[last.ret].live
        /\ node[last.ret].meta = last.pair_inode
        /\ MapGet(node[last.p].mounted, last.name) = last.pair_was

\* a umount_at that undid a mount_as which had shadowed an earlier mount
MountUmountRoundTripWitness ==
    /\ last.op = "umount_at"
    /\ last.pair
    /\ last.pair_was # NoNode
    /\ node[last.p].mounted[last.name] = last.pair_was

\* C3: open_child(n) with a plain name n returns the mounted child at n
\* whenever there is one, also when a live opened child exists under n; the
\* opened child is returned only when nothing is mounted at n.
MountedBeforeOpened ==
    (last.op = "open_child" /\ IsPlainName(last.name)) =>
        /\ last.was_mounted # NoNode => (last.err = NoErr /\ last.ret = last.was_mounted)
        /\ (last.was_mounted = NoNode /\ last.was_opened # NoNode) =>
               (last.err = NoErr /\ last.ret = last.was_opened)
        /\ (last.err = NoErr /\ last.ret # last.was_mounted) => last.was_mounted = NoNode

\* open_child returned the mounted child of a node that also held a live
\* opened child under the same name, which its inode has an entry for
MountedBeforeOpenedWitness ==
    /\ last.op = "open_child"
    /\ IsPlainName(last.name)
    /\ last.was_mounted # NoNode
    /\ last.was_opened # NoNode
    /\ last.was_opened # last.was_mounted
    /\ last.ret = last.was_mounted
    /\ lookup(Cur, last.p, last.name).err = NoErr

\* C5 (first half): while a caller holds a strong reference to a node that
\* open_child made by a lookup of name n in P, an open_child(n) on P that finds
\* nothing mounted at n returns that node.
OpenedChildIsShared ==
    (last.op = "open_child" /\ IsPlainName(last.name) /\ last.err = NoErr
        /\ last.was_mounted = NoNode) =>
        \A n \in Nodes :
            (/\ node[n].live
             /\ node[n].via = "open"
             /\ node[n].parent = last.p
             /\ node[n].name = last.name
             /\ held[n] > 0) => last.ret = n

\* C6: read_dir of an inode-backed node lists the entries of the inode and
\* one entry for every mounted child whose name the inode does not list, no
\* name twice, with the type of the mount for a name in both; read_dir of an
\* Empty node lists exactly its mounted children.
EntryNames(entries) == {entries[k].filename : k \in 1..Len(entries)}

MountType(P, name) ==
    IF node[node[P].mounted[name]].meta = "Empty" THEN "Directory"
    ELSE InodeType(node[node[P].mounted[name]].meta)

ReadDirMergesMounts ==
    (last.op = "read_dir" /\ last.err = NoErr) =>
        LET P == last.p
            inodeNames == IF node[P].meta = "Empty" THEN {}
                          ELSE DOMAIN InodeEntries(node[P].meta)
        IN /\ EntryNames(last.entries) = inodeNames \cup DOMAIN node[P].mounted
           /\ Len(last.entries) = Cardinality(EntryNames(last.entries))
           /\ \A k \in 1..Len(last.entries) :
                  last.entries[k].entry_type =
                      IF last.entries[k].filename \in DOMAIN node[P].mounted
                      THEN MountType(P, last.entries[k].filename)
                      ELSE InodeType(InodeEntries(node[P].meta)[last.entries[k].filename])

\* ------------------------------------------------------------------------
\* Mount and umount system calls in matched, properly nested pairs
\* ------------------------------------------------------------------------
MountPaths == {<<"", "">>, <<"", "mnt">>, <<"", "mnt", "a">>, <<"", "m">>}

\* MountSyscall::handle: global_mount(.., None), the returned node is dropped
MountSyscall(inode, path) ==
    /\ ~hung
    /\ Len(mstack) < MaxNest
    /\ \E r \in {global_mount(Cur, inode, path, NoNode)} :
       \E t1 \in {IF r.err = NoErr /\ ~r.t.hung THEN Release(r.t, r.ret) ELSE r.t} :
          /\ r.err # Bound
          /\ node' = t1.node
          /\ ROOT' = t1.root
          /\ held' = t1.held
          /\ hung' = t1.hung
          /\ last' = [NoLast EXCEPT !.op = "sys_mount", !.inode = inode, !.ret = r.ret,
                                    !.err = r.err]
          /\ mstack' = IF r.err = NoErr THEN <<path>> \o mstack ELSE mstack
          /\ UNCHANGED exceptTree

\* UmountSyscall::handle on the path mounted last: global_umount(.., None),
\* the returned node is dropped
UmountSyscall ==
    /\ ~hung
    /\ mstack # <<>>
    /\ \E r \in {global_umount(Cur, Head(mstack), NoNode)} :
       \E t1 \in {IF r.err = NoErr /\ ~r.t.hung THEN Release(r.t, r.ret) ELSE r.t} :
          /\ r.err # Bound
          /\ node' = t1.node
          /\ ROOT' = t1.root
          /\ held' = t1.held
          /\ hung' = t1.hung
          /\ last' = [NoLast EXCEPT !.op = "sys_umount", !.ret = r.ret, !.err = r.err]
          /\ mstack' = Tail(mstack)
          /\ UNCHANGED exceptTree

MountNext ==
    \/ \E inode \in {"d0", "f1"} : \E path \in MountPaths : MountSyscall(inode, path)
    \/ UmountSyscall

\* C2: when every mount has been undone by the umount of the same path and
\* the returned nodes have been dropped, the tree is the one initialize() made:
\* same root, same mounted maps, same shadowed chains.
PairedMountsRestoreTree ==
    mstack = <<>> => (~hung /\ ROOT = initialize.root /\ node = initialize.node)

\* ------------------------------------------------------------------------
\* Path resolution
\* ------------------------------------------------------------------------
Segments == {"", ".", "..", "a", "f", "x"}

RECURSIVE SeqsUpTo(_, _)
SeqsUpTo(S, n) ==
    IF n = 0 THEN {<<>>}
    ELSE LET shorter == SeqsUpTo(S, n - 1)
         IN shorter \cup {Append(q, x) : q \in {r \in shorter : Len(r) = n - 1}, x \in S}

\* all paths with at most MaxPathLen segments: absolute ones, relative ones
Paths ==
    LET segs == SeqsUpTo(Segments, MaxPathLen) \ {<<>>}
    IN {<<"">> \o q : q \in segs} \cup {q \in segs : Len(q) = 1 \/ q[1] # ""}

\* normalize: empty and "." segments removed, every "name/.." pair cancelled,
\* ".." at the root of an absolute path removed
RECURSIVE NormStack(_, _, _)
NormStack(parts, stack, abs) ==
    IF parts = <<>> THEN stack
    ELSE LET seg == Head(parts)
             next == IF seg = "" \/ seg = "." THEN stack
                     ELSE IF seg # ".." THEN Append(stack, seg)
                     ELSE IF stack # <<>> /\ stack[Len(stack)] # ".."
                     THEN SubSeq(stack, 1, Len(stack) - 1)
                     ELSE IF abs THEN stack
                     ELSE Append(stack, "..")
         IN NormStack(Tail(parts), next, abs)

Normalize(path) ==
    LET abs == is_path_fully_qualified(path)
        stack == NormStack(path, <<>>, abs)
    IN IF abs THEN (IF stack = <<>> THEN <<"", "">> ELSE <<"">> \o stack)
       ELSE (IF stack = <<>> THEN <<"">> ELSE stack)

PlainCount(path) == Cardinality({k \in 1..Len(path) : IsPlainName(path[k])})

\* normalization cancelled a "name/.." pair of the path
Cancels(path) == PlainCount(Normalize(path)) < PlainCount(path)

\* global_open(P), then global_open(normalize(P)) from the same base while the
\* first result is still held; both results are dropped afterwards
Resolve(path, base) ==
    /\ ~hung
    /\ \E r1 \in {global_open(Cur, path, base)} :
       \E r2 \in {global_open(r1.t, Normalize(path), base)} :
       \E t1 \in {IF r2.err = NoErr THEN Release(r2.t, r2.ret) ELSE r2.t} :
       \E t2 \in {IF r1.err = NoErr THEN Release(t1, r1.ret) ELSE t1} :
          /\ r1.err # Bound
          /\ ~r1.t.hung
          /\ r2.err # Bound
          /\ Becomes(t2, [NoLast EXCEPT !.op = "resolve", !.p = base,
                                        !.ret = r1.ret, !.err = r1.err,
                                        !.ret2 = r2.ret, !.err2 = r2.err,
                                        !.cancels = Cancels(path)])

\* The environment of this specification mounts the disk file system as the
\* root once, holds nodes as bases of relative paths and resolves every path
\* of Paths.
ResolveNext ==
    \/ (node[ROOT].shadowed = NoNode /\ GlobalMount("d0", RootPath))
    \/ \E P \in Callers : \E name \in {"a", "mnt"} : OpenChild(P, name)
    \/ \E n \in Nodes : ReleaseNode(n)
    \/ \E path \in Paths : \E base \in Callers \cup {NoNode} : Resolve(path, base)

\* C4 as stated: global_open(P) and global_open(normalize(P)) succeed
\* together and return the same node.
NormalizedPathOpensSame ==
    last.op = "resolve" =>
        /\ (last.err = NoErr) <=> (last.err2 = NoErr)
        /\ last.err = NoErr => last.ret = last.ret2

\* C4 amended: when global_open(P) succeeds, global_open(normalize(P))
\* succeeds and returns the same node; global_open(normalize(P)) succeeds where
\* global_open(P) fails only when normalization cancelled a name of P.
NormalizedPathOpensSameIfOpens ==
    last.op = "resolve" =>
        /\ last.err = NoErr => (last.err2 = NoErr /\ last.ret = last.ret2)
        /\ (last.err # NoErr /\ last.err2 = NoErr) => last.cancels

\* a path with a cancelled pair resolved to a node other than its base
NormalizedPathOpensSameWitness ==
    /\ last.op = "resolve"
    /\ last.cancels
    /\ last.err = NoErr
    /\ last.ret = last.ret2
    /\ last.p # NoNode
    /\ last.ret # last.p

\* ------------------------------------------------------------------------
\* RAM file (RamFileInode): the file's frames in physical memory
\* ------------------------------------------------------------------------
\* bytes in a page frame: the code's 4096, scaled down
PageBytes == 2
\* physical page frames of the model; the last one is never handed out by the
\* allocator, so that the frame after an allocated frame exists
MaxPPN == 4
\* largest offset + length of a write
MaxFileBytes == 4
\* longest buffer
MaxBuf == 3

PPNs == 1..MaxPPN

\* byte values of buffers; 0 is what memory holds before anything is written
Bytes == {1, 2}

Buffers == SeqsUpTo(Bytes, MaxBuf)

\* RamFileInode::new
RamFileInodeNew == [frames |-> <<>>, size |-> 0]

\* frames alloc_frame() can return: not owned by the file
FreeFrames(f) == (PPNs \ {MaxPPN}) \ {f.frames[k] : k \in DOMAIN f.frames}

\* sequences of n distinct free frames: the results of n calls of alloc_frame
FreshFrames(f, n) ==
    {q \in SeqsUpTo(FreeFrames(f), n) :
        Len(q) = n /\ \A i, j \in 1..n : i # j => q[i] # q[j]}

\* frames.resize_with(required_pages, alloc_frame)
ResizeWith(fr, required_pages, fresh) ==
    IF required_pages <= Len(fr) THEN SubSeq(fr, 1, required_pages) ELSE fr \o fresh

\* copy_from_slice into from_raw_parts_mut(data_ptr.add(start), Len(data)),
\* data_ptr = start address of frame ppn: bytes past the end of the frame land
\* in the frame that follows it in physical memory
CopyToFrame(m, ppn, start, data) ==
    [q \in PPNs |->
        [i \in 1..PageBytes |->
            LET at == (q - ppn) * PageBytes + (i - 1) - start
            IN IF at >= 0 /\ at < Len(data) THEN data[at + 1] ELSE m[q][i]]]

\* from_raw_parts(data_ptr.add(start), n) read out
CopyFromFrame(m, ppn, start, n) ==
    [k \in 1..n |-> m[ppn + ((start + k - 1) \div PageBytes)]
                     [((start + k - 1) % PageBytes) + 1]]

Min(a, b) == IF a <= b THEN a ELSE b

\* an access of len bytes at byte `start` of frame ppn reaches past the end of
\* the frame, into a frame the file does not own
Strays(f, ppn, start, len) ==
    /\ start + len > PageBytes
    /\ \A k \in DOMAIN f.frames : f.frames[k] # ppn + 1

\* the loop of writeat over &frames[offset / 4096..end_size / 4096 + 1];
\* w = [mem, current, stray]
RECURSIVE WriteLoop(_, _, _, _, _, _)
WriteLoop(w, f, slice, offset, end_size, buffer) ==
    IF slice = <<>> THEN w
    ELSE LET in_page_start == w.current % PageBytes
             in_page_len == Min(PageBytes, end_size - w.current)
             data == SubSeq(buffer, w.current - offset + 1,
                            w.current - offset + in_page_len)
         IN WriteLoop([mem |-> CopyToFrame(w.mem, Head(slice), in_page_start, data),
                       current |-> w.current + in_page_len,
                       stray |-> w.stray
                                 \/ Strays(f, Head(slice), in_page_start, in_page_len)],
                      f, Tail(slice), offset, end_size, buffer)

\* writeat: the part after the file has grown to f
WriteInto(f, m, offset, buffer) ==
    LET end_size == offset + Len(buffer)
        lo == offset \div PageBytes
        hi == end_size \div PageBytes + 1
    IN IF hi > Len(f.frames) \/ lo > hi
       THEN [file |-> f, mem |-> m, panic |-> TRUE, ret |-> 0, stray |-> FALSE]
       ELSE LET w == WriteLoop([mem |-> m, current |-> offset, stray |-> FALSE], f,
                               SubSeq(f.frames, lo + 1, hi), offset, end_size, buffer)
            IN [file |-> f, mem |-> w.mem, panic |-> FALSE,
                ret |-> w.current - offset, stray |-> w.stray]

\* RamFileInode::writeat(offset, buffer); fresh = the frames alloc_frame returns
writeat(f, m, offset, buffer, fresh) ==
    LET end_size == offset + Len(buffer)
        required_pages == (end_size + PageBytes - 1) \div PageBytes
    IN IF end_size > f.size
       THEN WriteInto([frames |-> ResizeWith(f.frames, required_pages, fresh),
                       size |-> end_size], m, offset, buffer)
       ELSE WriteInto(f, m, offset, buffer)

\* the loop of readat; r = [data, current, stray]
RECURSIVE ReadLoop(_, _, _, _)
ReadLoop(r, f, m, end_size) ==
    IF r.current >= end_size THEN r
    ELSE LET frame == f.frames[r.current \div PageBytes + 1]
             in_page_start == r.current % PageBytes
             in_page_len == Min(PageBytes, end_size - r.current)
         IN ReadLoop([data |-> r.data \o CopyFromFrame(m, frame, in_page_start, in_page_len),
                      current |-> r.current + in_page_len,
                      stray |-> r.stray \/ Strays(f, frame, in_page_start, in_page_len)],
                     f, m, end_size)

\* RamFileInode::readat(offset, buffer) with a buffer of len bytes
readat(f, m, offset, len) ==
    IF offset >= f.size THEN [ret |-> 0, data |-> <<>>, stray |-> FALSE]
    ELSE LET r == ReadLoop([data |-> <<>>, current |-> offset, stray |-> FALSE],
                           f, m, Min(f.size, offset + len))
         IN [ret |-> r.current - offset, data |-> r.data, stray |-> r.stray]

NoIo ==
    [op |-> "new", offset |-> 0, buffer |-> <<>>, ret |-> 0, stray |-> FALSE,
     after_write |-> FALSE, written |-> <<>>, write_ret |-> 0]

RamInit ==
    /\ file = RamFileInodeNew
    /\ phys = [q \in PPNs |-> [i \in 1..PageBytes |-> 0]]
    /\ panicked = FALSE
    /\ io = NoIo

\* the frames a write to offset + Len(buffer) makes the file allocate
FramesNeeded(f, end_size) ==
    IF end_size > f.size /\ (end_size + PageBytes - 1) \div PageBytes > Len(f.frames)
    THEN (end_size + PageBytes - 1) \div PageBytes - Len(f.frames)
    ELSE 0

Writeat(offset, buffer) ==
    /\ ~panicked
    /\ offset + Len(buffer) <= MaxFileBytes
    /\ \E fresh \in FreshFrames(file, FramesNeeded(file, offset + Len(buffer))) :
       \E w \in {writeat(file, phys, offset, buffer, fresh)} :
          /\ file' = w.file
          /\ phys' = w.mem
          /\ panicked' = w.panic
          /\ io' = [NoIo EXCEPT !.op = "writeat", !.offset = offset, !.buffer = buffer,
                                !.ret = w.ret, !.stray = w.stray]
          /\ UNCHANGED exceptRam

\* readat(offset, buffer of len bytes); it records whether it directly follows
\* writeat(offset, b) with Len(b) = len
Readat(offset, len) ==
    /\ ~panicked
    /\ \E r \in {readat(file, phys, offset, len)} :
          /\ io' = [NoIo EXCEPT !.op = "readat", !.offset = offset, !.buffer = r.data,
                                !.ret = r.ret, !.stray = r.stray \/ io.stray,
                                !.after_write = /\ io.op = "writeat"
                                                /\ io.offset = offset
                                                /\ Len(io.buffer) = len,
                                !.written = io.buffer, !.write_ret = io.ret]
          /\ UNCHANGED <<file, phys, panicked>>
          /\ UNCHANGED exceptRam

RamNext ==
    \/ \E offset \in 0..MaxFileBytes : \E buffer \in Buffers : Writeat(offset, buffer)
    \/ \E offset \in 0..MaxFileBytes : \E len \in 0..MaxBuf : Readat(offset, len)

\* C7: writeat(o, b) returns Len(b) without a panic and without touching
\* memory outside the file's frames, and the readat(o, Len(b)) that directly
\* follows it returns exactly b.
WriteThenReadRoundTrip ==
    /\ ~panicked
    /\ io.op = "writeat" => (io.ret = Len(io.buffer) /\ ~io.stray)
    /\ (io.op = "readat" /\ io.after_write) =>
           (io.write_ret = Len(io.written) /\ ~io.stray /\ io.buffer = io.written)

\* ------------------------------------------------------------------------
\* Memory space (MemorySpace, MappingArea)
\* ------------------------------------------------------------------------
\* largest virtual page number the operations are called with
MaxVPN == 9
\* physical page frames of the frame allocator
MaxFrames == 16
\* pages of the user stack: USER_STACK_SIZE / PAGE_SIZE, scaled down
StackPages == 2

\* AT_CLKTCK of the platform
CLKTCK == 125000000
\* usize and i64 arithmetic wraps at this modulus (the width is scaled down)
UsizeModulus == 65536

FrameNums == 1..MaxFrames

\* what a page holds
PageValues == {0, 1}

\* VirtualPageNumRange: [start, end)
from_start_end(start, end) == [start |-> start, end |-> end]

from_single(vpn) == [start |-> vpn, end |-> vpn + 1]

\* start + count overflows usize
RangeOverflows(start, count) == start + count >= UsizeModulus

\* VirtualPageNumRange::from_start_count where the sum does not panic
from_start_count(start, count) ==
    [start |-> start, end |-> (start + count) % UsizeModulus]

\* range.iter()
RangeVpns(range) == {vpn \in 0..MaxVPN + 1 : range.start <= vpn /\ vpn < range.end}

range_contains(range, vpn) == range.start <= vpn /\ vpn < range.end

\* diff_page_count: (self as i64 - other as i64) as isize
diff_page_count(self, other) == self - other

\* `page_count as usize`
AsUsize(n) == n % UsizeModulus

\* MappingArea::new
MappingAreaNew(range, area_type, map_type, permissions) ==
    [range |-> range, area_type |-> area_type, map_type |-> map_type,
     allocated_frames |-> EmptyMap, permissions |-> permissions]

\* MappingArea::clone_from
clone_from(them) ==
    [range |-> them.range, area_type |-> them.area_type, map_type |-> them.map_type,
     allocated_frames |-> EmptyMap, permissions |-> them.permissions]

\* the frames an area owns
AreaFrames(area) == {area.allocated_frames[vpn] : vpn \in DOMAIN area.allocated_frames}

\* the frames the areas of a memory space own
OwnedFrames(s) ==
    UNION {AreaFrames(s.mapping_areas[i]) : i \in DOMAIN s.mapping_areas}

\* alloc_frame(): a frame that is not in use, 0 for None
alloc_frame(used) ==
    IF FrameNums \ used = {} THEN 0
    ELSE CHOOSE ppn \in FrameNums \ used : \A q \in FrameNums \ used : ppn <= q

\* PageTable::map_single: mapping over a valid leaf is a programmer error
\* (panic); w = [area, page_table, panic]
map_single(w, vpn, ppn) ==
    IF MapGet(w.page_table, vpn) # 0 THEN [w EXCEPT !.panic = TRUE]
    ELSE [w EXCEPT !.page_table = MapPut(@, vpn, ppn)]

\* self.allocated_frames.insert(vpn, frame), reached when map_single returned
InsertFrame(w, vpn, ppn) ==
    IF w.panic THEN w ELSE [w EXCEPT !.area.allocated_frames = MapPut(@, vpn, ppn)]

\* apply_mapping_single after alloc_frame() returned ppn: unwrap(), then
\* register_to_table, then the insert
ApplyFrame(w, vpn, ppn) ==
    IF ppn = 0 THEN [w EXCEPT !.panic = TRUE]
    ELSE InsertFrame(map_single(w, vpn, ppn), vpn, ppn)

\* MappingArea::apply_mapping_single(vpn, None, ..); used = the frames owned
\* outside this area
apply_mapping_single(w, used, vpn) ==
    ApplyFrame(w, vpn, alloc_frame(used \cup AreaFrames(w.area)))

\* apply_mapping_single for every vpn of [vpn, end), until a panic
RECURSIVE ApplyRange(_, _, _, _)
ApplyRange(w, used, vpn, end) ==
    IF vpn >= end \/ w.panic THEN w
    ELSE ApplyRange(apply_mapping_single(w, used, vpn), used, vpn + 1, end)

\* MappingArea::apply_mapping
apply_mapping(w, used) == ApplyRange(w, used, w.area.range.start, w.area.range.end)

\* MappingArea::revoke_mapping_single: unmap_single(vpn), drop the frame
revoke_mapping_single(w, vpn) ==
    [w EXCEPT !.page_table = MapRemove(@, vpn),
              !.area.allocated_frames = MapRemove(@, vpn)]

RECURSIVE RevokeRange(_, _, _)
RevokeRange(w, vpn, end) ==
    IF vpn >= end THEN w
    ELSE RevokeRange(revoke_mapping_single(w, vpn), vpn + 1, end)

\* MappingArea::revoke_mapping
revoke_mapping(w) == RevokeRange(w, w.area.range.start, w.area.range.end)

\* MemorySpace::empty
MemorySpaceEmpty ==
    [page_table |-> EmptyMap, mapping_areas |-> <<>>,
     brk_area_idx |-> UsizeModulus - 1,
     brk_start |-> UsizeModulus - 1,
     stack_guard_base |-> [start |-> UsizeModulus - 1, end |-> UsizeModulus - 1],
     stack_range |-> [start |-> UsizeModulus - 1, end |-> UsizeModulus - 1],
     stack_gurad_top |-> [start |-> UsizeModulus - 1, end |-> UsizeModulus - 1],
     elf_area |-> [start |-> UsizeModulus - 1, end |-> UsizeModulus - 1],
     panic |-> FALSE]

Mapping(s, area) == [area |-> area, page_table |-> s.page_table, panic |-> FALSE]

\* map_area: w is the area after apply_mapping
PushArea(s, w) ==
    IF w.panic THEN [s EXCEPT !.page_table = w.page_table, !.panic = TRUE]
    ELSE [s EXCEPT !.page_table = w.page_table,
                   !.mapping_areas = Append(@, w.area)]

\* MemorySpace::map_area(area); busy = the frames other memory spaces own
map_area(s, busy, area) ==
    PushArea(s, apply_mapping(Mapping(s, area), busy \cup OwnedFrames(s)))

RemoveAt(seq, index) == SubSeq(seq, 1, index - 1) \o SubSeq(seq, index + 1, Len(seq))

\* mapping_areas.iter().position(|area| area.range.start() == vpn), counted
\* from 1; 0 for None
PositionStartsWith(s, vpn) ==
    IF \A i \in DOMAIN s.mapping_areas : s.mapping_areas[i].range.start # vpn THEN 0
    ELSE CHOOSE i \in DOMAIN s.mapping_areas :
            /\ s.mapping_areas[i].range.start = vpn
            /\ \A j \in 1..(i - 1) : s.mapping_areas[j].range.start # vpn

\* unmap_first_area_that: the area at `index` is removed and its mapping revoked
UnmapAt(s, index) ==
    [s EXCEPT !.page_table = revoke_mapping(Mapping(s, s.mapping_areas[index])).page_table,
              !.mapping_areas = RemoveAt(@, index)]

\* MemorySpace::unmap_area_starts_with(vpn):
\* unmap_first_area_that(|area| area.range.start() == vpn)
unmap_area_starts_with(s, vpn) ==
    IF PositionStartsWith(s, vpn) = 0 THEN [s |-> s, ret |-> FALSE]
    ELSE [s |-> UnmapAt(s, PositionStartsWith(s, vpn)), ret |-> TRUE]

\* &mut self.mapping_areas[self.brk_area_idx] is out of bounds
NoBrkArea(s) == s.brk_area_idx + 1 > Len(s.mapping_areas)

BrkArea(s) == s.mapping_areas[s.brk_area_idx + 1]

\* brk_page_range
brk_page_range(s) == BrkArea(s).range

\* increase_brk/shrink_brk: w is the brk area after the loop, then
\* brk_area.range = from_start_end(brk_area.range.start(), new_end_vpn)
SetBrkEnd(s, w, new_end_vpn) ==
    IF w.panic THEN [s |-> [s EXCEPT !.page_table = w.page_table, !.panic = TRUE],
                     err |-> NoErr]
    ELSE [s |-> [s EXCEPT !.page_table = w.page_table,
                          !.mapping_areas[s.brk_area_idx + 1] =
                              [w.area EXCEPT !.range =
                                  from_start_end(w.area.range.start, new_end_vpn)]],
          err |-> NoErr]

\* increase_brk: the loop over from_start_count(old_end_vpn, page_count as usize);
\* a debug build panics when start + count overflows, a release build wraps
IncreaseBy(s, busy, new_end_vpn, old_end_vpn, count, debug) ==
    IF RangeOverflows(old_end_vpn, count) /\ debug
    THEN [s |-> [s EXCEPT !.panic = TRUE], err |-> NoErr]
    ELSE SetBrkEnd(s,
                   ApplyRange(Mapping(s, BrkArea(s)), busy \cup OwnedFrames(s),
                              old_end_vpn, from_start_count(old_end_vpn, count).end),
                   new_end_vpn)

\* MemorySpace::increase_brk(new_end_vpn)
increase_brk(s, busy, new_end_vpn, debug) ==
    IF NoBrkArea(s) THEN [s |-> [s EXCEPT !.panic = TRUE], err |-> NoErr]
    ELSE IF new_end_vpn < brk_page_range(s).start
    THEN [s |-> s, err |-> "New end is less than the current start"]
    ELSE IF diff_page_count(new_end_vpn, brk_page_range(s).end) = 0
    THEN [s |-> s, err |-> NoErr]
    ELSE IncreaseBy(s, busy, new_end_vpn, brk_page_range(s).end,
                    AsUsize(diff_page_count(new_end_vpn, brk_page_range(s).end)), debug)

\* shrink_brk that clears the leaf entries and keeps the frames
shrink_brk_keeps_frames(s, new_end_vpn) ==
    IF NoBrkArea(s) THEN [s |-> [s EXCEPT !.panic = TRUE], err |-> NoErr]
    ELSE IF new_end_vpn > brk_page_range(s).end
    THEN [s |-> s, err |-> "New end is greater than the current end"]
    ELSE IF new_end_vpn < brk_page_range(s).start
    THEN [s |-> s, err |-> "New end is less than the current start"]
    ELSE [s |-> [s EXCEPT !.page_table =
                              [vpn \in DOMAIN @ \ RangeVpns(from_start_end(
                                   new_end_vpn, brk_page_range(s).end)) |-> @[vpn]],
                          !.mapping_areas[s.brk_area_idx + 1].range =
                              from_start_end(brk_page_range(s).start, new_end_vpn)],
          err |-> NoErr]

\* MemorySpace::shrink_brk(new_end_vpn)
shrink_brk(s, new_end_vpn) ==
    IF NoBrkArea(s) THEN [s |-> [s EXCEPT !.panic = TRUE], err |-> NoErr]
    ELSE IF new_end_vpn > brk_page_range(s).end
    THEN [s |-> s, err |-> "New end is greater than the current end"]
    ELSE IF new_end_vpn < brk_page_range(s).start
    THEN [s |-> s, err |-> "New end is less than the current start"]
    ELSE IF diff_page_count(brk_page_range(s).end, new_end_vpn) = 0
    THEN [s |-> s, err |-> NoErr]
    ELSE SetBrkEnd(s,
                   RevokeRange(Mapping(s, BrkArea(s)), new_end_vpn,
                               from_start_count(new_end_vpn,
                                   AsUsize(diff_page_count(brk_page_range(s).end,
                                                           new_end_vpn))).end),
                   new_end_vpn)

\* clone_existing: the copy of the pages [vpn, end) of an area through the
\* high-half window; as_high_half(..).expect(..) panics on a page that is not
\* mapped; c = [this, pages]
RECURSIVE CopyPages(_, _, _, _)
CopyPages(c, them, vpn, end) ==
    IF vpn >= end \/ c.this.panic THEN c
    ELSE IF MapGet(them.page_table, vpn) = 0 \/ MapGet(c.this.page_table, vpn) = 0
    THEN [c EXCEPT !.this.panic = TRUE]
    ELSE CopyPages([c EXCEPT !.pages[c.this.page_table[vpn]] =
                                 c.pages[them.page_table[vpn]]],
                   them, vpn + 1, end)

\* clone_existing: one iteration of the loop over them.mapping_areas
CloneArea(c, them, area) ==
    CopyPages([c EXCEPT !.this = map_area(c.this, OwnedFrames(them), clone_from(area))],
              them, area.range.start, area.range.end)

RECURSIVE CloneAreas(_, _, _)
CloneAreas(c, them, i) ==
    IF i > Len(them.mapping_areas) \/ c.this.panic THEN c
    ELSE CloneAreas(CloneArea(c, them, them.mapping_areas[i]), them, i + 1)

\* a clone that maps the frames of the original
clone_existing_shares_frames(them, mem) ==
    [this |-> [them EXCEPT !.brk_area_idx = MemorySpaceEmpty.brk_area_idx],
     pages |-> mem]

\* MemorySpace::clone_existing(them); mem = the contents of the page frames.
\* register_kernel_area fills kernel entries of the root table, which no user
\* VPN uses.
clone_existing(them, mem) ==
    CloneAreas([this |-> MemorySpaceEmpty, pages |-> mem], them, 1)

\* VirtualPageNum::start_addr
start_addr(vpn) == vpn * PageBytes

\* VirtualAddress::to_floor_page_num
to_floor_page_num(addr) == addr \div PageBytes

\* VirtualAddress::to_ceil_page_num
to_ceil_page_num(addr) == (addr + PageBytes - 1) \div PageBytes

\* VirtualAddressRange::from_start_end
addr_from_start_end(start, end) == [start |-> start, end |-> end]

\* VirtualAddressRange::from_start_len
addr_from_start_len(start, len) == [start |-> start, end |-> start + len]

\* constants::USER_STACK_SIZE
USER_STACK_SIZE == StackPages * PageBytes

UserRW == {"Valid", "Writable", "Readable", "User"}

\* from_elf: segment_permissions of a program header with the flags `flags`
segment_permissions(flags) ==
    {"Valid", "User"}
        \cup (IF "R" \in flags THEN {"Readable"} ELSE {})
        \cup (IF "W" \in flags THEN {"Writable"} ELSE {})
        \cup (IF "X" \in flags THEN {"Executable"} ELSE {})

\* ph.virtual_addr() + ph.mem_size()
SegmentEnd(ph) == ph.virtual_addr + ph.mem_size

\* PageTable::activated_copy_data_to_other(other, start, data): the bytes of
\* data from index i on go to the frames `other` maps at start + i - 1, ...
RECURSIVE activated_copy_data_to_other(_, _, _, _, _)
activated_copy_data_to_other(mem, page_table, start, data, i) ==
    IF i > Len(data) THEN mem
    ELSE IF MapGet(page_table, to_floor_page_num(start + i - 1)) = 0 THEN mem
    ELSE activated_copy_data_to_other(
             [mem EXCEPT ![page_table[to_floor_page_num(start + i - 1)]]
                              [(start + i - 1) % PageBytes] = data[i]],
             page_table, start, data, i + 1)

\* from_elf: the body of the loop over the PT_LOAD program headers, after
\* map_area returned; b = [memory_space, mem, min_start_vpn, max_end_vpn, p_head]
SegmentMapped(b, s, ph) ==
    [memory_space |-> s,
     mem |-> IF s.panic THEN b.mem
             ELSE activated_copy_data_to_other(b.mem, s.page_table, ph.virtual_addr,
                                               ph.data, 1),
     min_start_vpn |-> IF to_floor_page_num(ph.virtual_addr) < b.min_start_vpn
                       THEN to_floor_page_num(ph.virtual_addr) ELSE b.min_start_vpn,
     max_end_vpn |-> IF to_floor_page_num(SegmentEnd(ph)) > b.max_end_vpn
                     THEN to_floor_page_num(SegmentEnd(ph)) ELSE b.max_end_vpn,
     p_head |-> IF b.p_head = 0 THEN ph.virtual_addr ELSE b.p_head]

\* from_elf: one iteration of the loop over the PT_LOAD program headers
LoadSegment(b, ph) ==
    SegmentMapped(b,
        map_area(b.memory_space, {},
                 MappingAreaNew(from_start_end(to_floor_page_num(ph.virtual_addr),
                                               to_ceil_page_num(SegmentEnd(ph))),
                                "UserElf", "Framed", segment_permissions(ph.flags))),
        ph)

RECURSIVE LoadSegments(_, _, _)
LoadSegments(b, phs, i) ==
    IF i > Len(phs) \/ b.memory_space.panic THEN b
    ELSE LoadSegments(LoadSegment(b, phs[i]), phs, i + 1)

\* from_elf: memory_space.elf_area
ElfArea(s, min_start_vpn, max_end_vpn) ==
    [s EXCEPT !.elf_area = addr_from_start_end(start_addr(min_start_vpn),
                                               start_addr(max_end_vpn))]

\* from_elf: the stack guard base area at max_end_vpn
GuardBase(s, max_end_vpn) ==
    [map_area(s, {}, MappingAreaNew(from_single(max_end_vpn),
                                    "UserStackGuardBase", "Framed", {}))
        EXCEPT !.stack_guard_base =
                   addr_from_start_len(start_addr(max_end_vpn), USER_STACK_SIZE)]

\* from_elf: the stack area at max_end_vpn
Stack(s, max_end_vpn) ==
    [map_area(s, {}, MappingAreaNew(from_start_count(max_end_vpn,
                                                     USER_STACK_SIZE \div PageBytes),
                                    "UserStack", "Framed", UserRW))
        EXCEPT !.stack_range =
                   addr_from_start_len(start_addr(max_end_vpn), USER_STACK_SIZE)]

\* from_elf: the stack guard top area at max_end_vpn
GuardTop(s, max_end_vpn) ==
    [map_area(s, {}, MappingAreaNew(from_single(max_end_vpn),
                                    "UserStackGuardTop", "Framed", {}))
        EXCEPT !.stack_gurad_top =
                   addr_from_start_len(start_addr(max_end_vpn), PageBytes)]

\* from_elf: the zero-sized brk area at max_end_vpn
Brk(s, max_end_vpn) ==
    [map_area(s, {}, MappingAreaNew(from_start_count(max_end_vpn, 0),
                                    "UserBrk", "Framed", UserRW))
        EXCEPT !.brk_start = start_addr(max_end_vpn)]

\* MemorySpaceBuilder::from_elf: the areas after the PT_LOAD segments;
\* max_end_vpn is the value the loop left
StackAndBrk(s, max_end_vpn) ==
    Brk(GuardTop(Stack(GuardBase(s, max_end_vpn + 1),
                       max_end_vpn + 2),
                 max_end_vpn + 2 + USER_STACK_SIZE \div PageBytes),
        max_end_vpn + 3 + USER_STACK_SIZE \div PageBytes)

\* from_elf: brk_area_idx = the position of the first UserBrk area
FindBrk(s) ==
    [s EXCEPT !.brk_area_idx =
        (CHOOSE i \in DOMAIN s.mapping_areas :
            /\ s.mapping_areas[i].area_type = "UserBrk"
            /\ \A j \in 1..(i - 1) : s.mapping_areas[j].area_type # "UserBrk") - 1]

\* from_elf: the aux vector entries, in the order they are pushed
ElfAuxv(elf, p_head) ==
    <<[key |-> "AT_PHDR", value |-> p_head + elf.ph_offset],
      [key |-> "AT_PHENT", value |-> elf.ph_entry_size],
      [key |-> "AT_PHNUM", value |-> elf.ph_count],
      [key |-> "AT_PAGESZ", value |-> PageBytes],
      [key |-> "AT_BASE", value |-> 0],
      [key |-> "AT_FLAGS", value |-> 0],
      [key |-> "AT_ENTRY", value |-> elf.entry_point],
      [key |-> "AT_UID", value |-> 0],
      [key |-> "AT_EUID", value |-> 0],
      [key |-> "AT_GID", value |-> 0],
      [key |-> "AT_EGID", value |-> 0],
      [key |-> "AT_HWCAP", value |-> 0],
      [key |-> "AT_CLKTCK", value |-> CLKTCK],
      [key |-> "AT_SECURE", value |-> 0]>>

\* from_elf: the builder it returns; b is what the loop over the segments left.
\* A panic ends the kernel before anything is returned.
BuilderOf(elf, b, s) ==
    [memory_space |-> s,
     mem |-> b.mem,
     entry_pc |-> elf.entry_point,
     stack_top |-> IF s.panic THEN 0 ELSE s.stack_gurad_top.start,
     argc |-> 0,
     argv_base |-> IF s.panic THEN 0 ELSE s.stack_gurad_top.start,
     envp_base |-> IF s.panic THEN 0 ELSE s.stack_gurad_top.start,
     auxv |-> IF s.panic THEN <<>> ELSE ElfAuxv(elf, b.p_head)]

\* from_elf: after the loop over the segments
AfterSegments(elf, b) ==
    BuilderOf(elf, b,
              IF b.memory_space.panic THEN b.memory_space
              ELSE FindBrk(StackAndBrk(ElfArea(b.memory_space, b.min_start_vpn,
                                               b.max_end_vpn),
                                       b.max_end_vpn)))

\* MemorySpaceBuilder::from_elf(elf_data); elf = the parsed image (its PT_LOAD
\* program headers in header order and the header fields from_elf reads),
\* junk = what a frame holds when alloc_frame returns it
from_elf(elf, junk) ==
    AfterSegments(elf,
        LoadSegments([memory_space |-> MemorySpaceEmpty,
                      mem |-> [ppn \in FrameNums |-> [o \in 0..(PageBytes - 1) |-> junk]],
                      min_start_vpn |-> UsizeModulus - 1,
                      max_end_vpn |-> 0,
                      p_head |-> 0],
                     elf.segments, 1))

\* an image with one PT_LOAD segment of one byte at the start of page 1
TaskImage ==
    [segments |-> <<[virtual_addr |-> start_addr(1), file_size |-> 1, mem_size |-> 1,
                     flags |-> {"R", "X"}, data |-> <<1>>]>>,
     entry_point |-> start_addr(1), ph_offset |-> 1, ph_entry_size |-> 1,
     ph_count |-> 1]

\* the memory space of a task
TaskSpace == from_elf(TaskImage, 0).memory_space

\* no clone yet
NoSpace == [MemorySpaceEmpty EXCEPT !.brk_area_idx = 0]

Translate(s, vpn) == MapGet(s.page_table, vpn)

\* what each mapped page of s holds
Contents(s, mem) == [vpn \in DOMAIN s.page_table |-> mem[s.page_table[vpn]]]

NoMemOp ==
    [op |-> "from_elf", arg |-> 0, err |-> NoErr, before |-> MemorySpaceEmpty,
     grew |-> FALSE, after_grow |-> FALSE, grown_to |-> 0, in_clone |-> FALSE,
     peer |-> EmptyMap]

MemInit ==
    /\ space = TaskSpace
    /\ clone = NoSpace
    /\ pages = [ppn \in FrameNums |-> 0]
    /\ mlast = NoMemOp

Halted == space.panic \/ clone.panic

\* frames increase_brk(new_end_vpn) allocates when it extends the brk area
BrkGrowth(s, new_end_vpn) ==
    IF NoBrkArea(s) \/ new_end_vpn <= brk_page_range(s).end THEN 0
    ELSE new_end_vpn - brk_page_range(s).end

FreeFrameCount == MaxFrames - Cardinality(OwnedFrames(space) \cup OwnedFrames(clone))

\* the first page of the brk area of the task
BrkBase == to_floor_page_num(TaskSpace.brk_start)

\* the range map_area is called with: pages the brk area can grow into
MapRanges == {from_start_end(BrkBase + 1, BrkBase + 3)}

MapArea(range) ==
    /\ ~Halted
    /\ FreeFrameCount >= range.end - range.start
    /\ space' = map_area(space, OwnedFrames(clone),
                         MappingAreaNew(range, "UserElf", "Framed", UserRW))
    /\ mlast' = [NoMemOp EXCEPT !.op = "map_area", !.arg = range.start]
    /\ UNCHANGED <<clone, pages>>
    /\ UNCHANGED exceptMem

UnmapAreaStartsWith(vpn) ==
    /\ ~Halted
    /\ \E r \in {unmap_area_starts_with(space, vpn)} :
          /\ space' = r.s
          /\ mlast' = [NoMemOp EXCEPT !.op = "unmap", !.arg = vpn,
                                      !.err = IF r.ret THEN NoErr ELSE "false"]
    /\ UNCHANGED <<clone, pages>>
    /\ UNCHANGED exceptMem

\* increase_brk(new_end_vpn) in a debug build (overflow checks) or a release
\* build
IncreaseBrk(new_end_vpn, debug) ==
    /\ ~Halted
    /\ FreeFrameCount >= BrkGrowth(space, new_end_vpn)
    /\ \E r \in {increase_brk(space, OwnedFrames(clone), new_end_vpn, debug)} :
          /\ space' = r.s
          /\ mlast' = [NoMemOp EXCEPT
                          !.op = "increase_brk", !.arg = new_end_vpn, !.err = r.err,
                          !.grew = /\ ~NoBrkArea(space)
                                   /\ new_end_vpn >= brk_page_range(space).end
                                   /\ r.err = NoErr
                                   /\ ~r.s.panic]
    /\ UNCHANGED <<clone, pages>>
    /\ UNCHANGED exceptMem

\* shrink_brk(new_end_vpn); it records whether it directly follows an
\* increase_brk(k) with k at or above the end the brk area had
ShrinkBrk(new_end_vpn) ==
    /\ ~Halted
    /\ \E r \in {shrink_brk(space, new_end_vpn)} :
          /\ space' = r.s
          /\ mlast' = [NoMemOp EXCEPT
                          !.op = "shrink_brk", !.arg = new_end_vpn, !.err = r.err,
                          !.before = space,
                          !.after_grow = mlast.op = "increase_brk" /\ mlast.grew,
                          !.grown_to = mlast.arg]
    /\ UNCHANGED <<clone, pages>>
    /\ UNCHANGED exceptMem

CloneExisting ==
    /\ ~Halted
    /\ clone = NoSpace
    /\ FreeFrameCount >= Cardinality(OwnedFrames(space))
    /\ \E c \in {clone_existing(space, pages)} :
          /\ clone' = c.this
          /\ pages' = c.pages
          /\ mlast' = [NoMemOp EXCEPT !.op = "clone_existing"]
    /\ UNCHANGED <<space>>
    /\ UNCHANGED exceptMem

\* the pages user code writes
WriteVpns == {3}

\* a store of user code running in the original (in_clone = FALSE) or in the
\* clone to a page its page table maps writable
WritePageOf(in_clone, vpn, value) ==
    /\ ~Halted
    /\ \E s \in {IF in_clone THEN clone ELSE space} :
       \E o \in {IF in_clone THEN space ELSE clone} :
          /\ Translate(s, vpn) # 0
          /\ \E i \in DOMAIN s.mapping_areas :
                /\ range_contains(s.mapping_areas[i].range, vpn)
                /\ "Writable" \in s.mapping_areas[i].permissions
          /\ pages[Translate(s, vpn)] # value
          /\ pages' = [pages EXCEPT ![Translate(s, vpn)] = value]
          /\ mlast' = [NoMemOp EXCEPT !.op = "write", !.arg = vpn,
                                      !.in_clone = in_clone,
                                      !.peer = Contents(o, pages)]
          /\ UNCHANGED <<space, clone>>
          /\ UNCHANGED exceptMem

MemNext ==
    \/ \E range \in MapRanges : MapArea(range)
    \/ \E vpn \in {1, BrkBase + 1} : UnmapAreaStartsWith(vpn)
    \/ \E new_end_vpn \in (BrkBase - 1)..(BrkBase + 2) : \E debug \in BOOLEAN :
          IncreaseBrk(new_end_vpn, debug)
    \/ \E new_end_vpn \in (BrkBase - 1)..(BrkBase + 2) : ShrinkBrk(new_end_vpn)
    \/ CloneExisting
    \/ \E in_clone \in BOOLEAN : \E vpn \in WriteVpns : \E value \in PageValues :
          WritePageOf(in_clone, vpn, value)


\* every VPN of every Framed area has a frame the area owns, and the page
\* table translates the VPN to that frame
FramedAreasMapped(s) ==
    \A i \in DOMAIN s.mapping_areas :
        s.mapping_areas[i].map_type = "Framed" =>
            \A vpn \in RangeVpns(s.mapping_areas[i].range) :
                /\ MapGet(s.mapping_areas[i].allocated_frames, vpn) # 0
                /\ Translate(s, vpn) = s.mapping_areas[i].allocated_frames[vpn]

InSomeArea(s, vpn) ==
    \E i \in DOMAIN s.mapping_areas : range_contains(s.mapping_areas[i].range, vpn)

\* no VPN outside every area's range has a leaf mapping or an owned frame
NothingOutsideAreas(s) ==
    /\ \A vpn \in DOMAIN s.page_table : InSomeArea(s, vpn)
    /\ \A i \in DOMAIN s.mapping_areas :
          \A vpn \in DOMAIN s.mapping_areas[i].allocated_frames : InSomeArea(s, vpn)

\* C8: after any sequence of map_area, increase_brk, shrink_brk and
\* unmap_first_area_that the kernel runs, every VPN of every Framed area has
\* one owned frame which the page table translates it to, and no VPN outside
\* the areas has an owned frame or a leaf mapping.
MemorySpaceConsistent ==
    /\ ~space.panic
    /\ FramedAreasMapped(space)
    /\ NothingOutsideAreas(space)

SameShape(a, b) ==
    /\ a.range = b.range
    /\ a.permissions = b.permissions
    /\ a.area_type = b.area_type
    /\ a.map_type = b.map_type

BrkGrowThenShrink ==
    (mlast.op = "shrink_brk" /\ ~NoBrkArea(mlast.before)) =>
        LET old == mlast.before
            start == brk_page_range(old).start
            end == brk_page_range(old).end
            new_end == mlast.arg
        IN /\ (mlast.after_grow /\ start <= new_end /\ new_end <= mlast.grown_to) =>
                 /\ end = mlast.grown_to
                 /\ mlast.err = NoErr
                 /\ ~space.panic
                 /\ brk_page_range(space) = from_start_end(start, new_end)
                 /\ OwnedFrames(space) \subseteq OwnedFrames(old)
                 /\ Cardinality(OwnedFrames(old) \ OwnedFrames(space)) = end - new_end
                 /\ DOMAIN old.page_table \ DOMAIN space.page_table =
                        RangeVpns(from_start_end(new_end, end))
                 /\ \A vpn \in DOMAIN space.page_table :
                        space.page_table[vpn] = old.page_table[vpn]
                 /\ \A vpn \in RangeVpns(from_start_end(start, new_end)) :
                        /\ Translate(space, vpn) # 0
                        /\ BrkArea(space).allocated_frames[vpn] = Translate(space, vpn)
           /\ (new_end > end \/ new_end < start) =>
                 (mlast.err # NoErr /\ space = old)

\* a brk area grown by two or more pages gives some of them back
BrkGrowThenShrinkWitness ==
    /\ mlast.op = "shrink_brk"
    /\ mlast.after_grow
    /\ mlast.err = NoErr
    /\ brk_page_range(mlast.before).start < mlast.arg
    /\ mlast.arg < mlast.grown_to
    /\ BrkArea(space).area_type = "UserBrk"

\* ------------------------------------------------------------------------
\* sys_brk (BrkSyscall::handle)
\* ------------------------------------------------------------------------
\* the largest address sys_brk is called with
MaxBrkAddr == 18

\* the result of a syscall: the memory space and tcb.brk_pos after it, and
\* what it returns (-1 for Err(-1))
BrkResult(s, pos, ret) == [s |-> s, brk_pos |-> pos, ret |-> ret]

\* BrkSyscall::handle: match memory_space.increase_brk(vpn)
BrkIncreased(r, current_brk, brk) ==
    IF r.s.panic THEN BrkResult(r.s, current_brk, -1)
    ELSE IF r.err = NoErr THEN BrkResult(r.s, brk, brk)
    ELSE BrkResult(r.s, current_brk, -1)

\* BrkSyscall::handle with the page of the new break rounded down
BrkHandle_floor_page(s, current_brk, brk, debug) ==
    IF brk = 0 \/ brk = current_brk THEN BrkResult(s, current_brk, current_brk)
    ELSE IF brk < current_brk THEN BrkResult(s, current_brk, -1)
    ELSE IF NoBrkArea(s) THEN BrkResult([s EXCEPT !.panic = TRUE], current_brk, -1)
    ELSE IF brk < start_addr(brk_page_range(s).end) THEN BrkResult(s, brk, brk)
    ELSE BrkIncreased(increase_brk(s, {}, to_floor_page_num(brk), debug),
                      current_brk, brk)

\* BrkSyscall::handle that records the new break before it rejects it
BrkHandle_stores_first(s, current_brk, brk, debug) ==
    IF brk = 0 \/ brk = current_brk THEN BrkResult(s, current_brk, current_brk)
    ELSE IF brk < current_brk THEN BrkResult(s, brk, -1)
    ELSE IF NoBrkArea(s) THEN BrkResult([s EXCEPT !.panic = TRUE], current_brk, -1)
    ELSE IF brk < start_addr(brk_page_range(s).end) THEN BrkResult(s, brk, brk)
    ELSE BrkIncreased(increase_brk(s, {}, to_ceil_page_num(brk), debug),
                      current_brk, brk)

\* BrkSyscall::handle(ctx) with arg0 = brk
BrkHandle(s, current_brk, brk, debug) ==
    IF brk = 0 \/ brk = current_brk THEN BrkResult(s, current_brk, current_brk)
    ELSE IF brk < current_brk THEN BrkResult(s, current_brk, -1)
    ELSE IF NoBrkArea(s) THEN BrkResult([s EXCEPT !.panic = TRUE], current_brk, -1)
    ELSE IF brk < start_addr(brk_page_range(s).end) THEN BrkResult(s, brk, brk)
    ELSE BrkIncreased(increase_brk(s, {}, to_ceil_page_num(brk), debug),
                      current_brk, brk)

\* the task starts with its break at the start of the brk area
InitialBrk == TaskSpace.brk_start

NoBrkCall ==
    [op |-> "none", arg |-> 0, ret |-> 0, pos |-> 0, space |-> MemorySpaceEmpty,
     prev_arg |-> 0, prev_pos |-> 0, prev_ret |-> 0, prev_space |-> MemorySpaceEmpty]

TaskInit ==
    /\ brk_pos = InitialBrk
    /\ blast = NoBrkCall

\* the syscall sys_brk(brk); blast keeps the call and the one before it
BrkSyscall(brk, debug) ==
    /\ ~space.panic
    /\ FreeFrameCount >= BrkGrowth(space, to_ceil_page_num(brk))
    /\ \E r \in {BrkHandle(space, brk_pos, brk, debug)} :
          /\ space' = r.s
          /\ brk_pos' = r.brk_pos
          /\ blast' = [op |-> "brk", arg |-> brk, ret |-> r.ret, pos |-> brk_pos,
                       space |-> space,
                       prev_arg |-> blast.arg, prev_pos |-> blast.pos,
                       prev_ret |-> blast.ret, prev_space |-> blast.space]
    /\ UNCHANGED <<clone, pages, mlast>>
    /\ UNCHANGED <<treeVars, ramVars, builderVars, fdVars, concVars>>

BrkNext ==
    \E brk \in 0..MaxBrkAddr : \E debug \in BOOLEAN : BrkSyscall(brk, debug)

BrkExtendThenShrinkBack ==
    (/\ blast.op = "brk"
     /\ blast.prev_arg = blast.prev_pos + 2 * PageBytes
     /\ blast.arg = blast.prev_pos) =>
        /\ brk_page_range(blast.space).end = brk_page_range(blast.prev_space).end + 2
        /\ blast.ret = blast.prev_pos
        /\ brk_pos = blast.prev_pos
        /\ space = blast.prev_space

\* ------------------------------------------------------------------------
\* MemorySpaceBuilder::from_elf over ELF images
\* ------------------------------------------------------------------------
\* the highest address a PT_LOAD segment starts at, and its largest mem_size
MaxSegAddr == 5
MaxSegSize == 2

\* the file bytes of a segment with file_size bytes
SegData(file_size) == [i \in 1..file_size |-> i]

SegFlags == {{"R"}, {"R", "W"}, {"R", "X"}}

\* PT_LOAD program headers: mem_size >= file_size
ProgramHeaders ==
    {ph \in [virtual_addr : PageBytes..MaxSegAddr, file_size : 0..MaxSegSize,
             mem_size : 1..MaxSegSize, flags : SegFlags,
             data : {SegData(f) : f \in 0..MaxSegSize}] :
        /\ ph.file_size <= ph.mem_size
        /\ ph.data = SegData(ph.file_size)}

\* two segments occupy disjoint byte ranges
BytesDisjoint(a, b) ==
    SegmentEnd(a) <= b.virtual_addr \/ SegmentEnd(b) <= a.virtual_addr

\* an ELF image with the PT_LOAD program headers phs
ImageOf(phs) ==
    [segments |-> phs, entry_point |-> phs[1].virtual_addr, ph_offset |-> 1,
     ph_entry_size |-> 1, ph_count |-> Len(phs)]

\* ELF images with one PT_LOAD segment, or two that occupy disjoint bytes
ElfImages ==
    {ImageOf(<<a>>) : a \in ProgramHeaders}
        \cup {ImageOf(<<p[1], p[2]>>) :
                 p \in {q \in ProgramHeaders \X ProgramHeaders : BytesDisjoint(q[1], q[2])}}

\* what a frame can hold when alloc_frame returns it
Junk == {0, 7}

NoBuilder == [op |-> "none", elf |-> TaskImage, junk |-> 0,
              b |-> from_elf(TaskImage, 0)]

BuilderInit == built = NoBuilder

\* the kernel builds the memory space of a new process from an ELF image
FromElf(elf, junk) ==
    /\ built.op = "none"
    /\ built' = [op |-> "from_elf", elf |-> elf, junk |-> junk,
                 b |-> from_elf(elf, junk)]
    /\ UNCHANGED <<treeVars, ramVars, memVars, taskVars, fdVars, concVars>>

ElfNext == \E elf \in ElfImages : \E junk \in Junk : FromElf(elf, junk)

\* the byte the memory space of builder b holds at addr; -1 when not mapped
ReadByte(b, addr) ==
    IF Translate(b.memory_space, to_floor_page_num(addr)) = 0 THEN -1
    ELSE b.mem[Translate(b.memory_space, to_floor_page_num(addr))][addr % PageBytes]

\* no VPN lies in the range of two mapping areas of s
NoAreaOverlap(s) ==
    \A i, j \in DOMAIN s.mapping_areas :
        i # j => RangeVpns(s.mapping_areas[i].range)
                     \cap RangeVpns(s.mapping_areas[j].range) = {}

\* C13: no VPN lies in the range of two mapping areas and no VPN is mapped a
\* second time over a valid leaf; from_elf keeps this for every image whose
\* PT_LOAD segments occupy disjoint byte ranges, also when two share a page.
AreasNeverOverlap ==
    built.op = "from_elf" =>
        /\ ~built.b.memory_space.panic
        /\ NoAreaOverlap(built.b.memory_space)

\* the areas of s of the given type
AreasOfType(s, area_type) ==
    {i \in DOMAIN s.mapping_areas : s.mapping_areas[i].area_type = area_type}

\* the byte range of the pages of a VPN range
AddrRangeOf(range) == addr_from_start_end(start_addr(range.start), start_addr(range.end))

\* two address ranges share no byte
AddrDisjoint(a, b) == a.end <= b.start \/ b.end <= a.start \/ a.start >= a.end
                          \/ b.start >= b.end

\* the area of s of a type that from_elf maps once
TheArea(s, area_type) ==
    s.mapping_areas[CHOOSE i \in AreasOfType(s, area_type) : TRUE]

\* C14: for every memory space from_elf returns: the stack area and the
\* recorded stack range are USER_STACK_SIZE bytes, both guard areas and their
\* recorded ranges are one page each, the low guard ends where the stack
\* starts, the stack ends where the high guard starts (stack_top), the brk
\* area starts at brk_start directly after the high guard with zero pages,
\* and ELF areas, recorded ELF range, guards, stack and brk do not overlap.
StackLayout ==
    (built.op = "from_elf" /\ ~built.b.memory_space.panic) =>
        LET s == built.b.memory_space
            low == TheArea(s, "UserStackGuardBase").range
            stack == TheArea(s, "UserStack").range
            high == TheArea(s, "UserStackGuardTop").range
            brk == TheArea(s, "UserBrk").range
        IN /\ stack.end - stack.start = USER_STACK_SIZE \div PageBytes
           /\ s.stack_range = AddrRangeOf(stack)
           /\ s.stack_range.end - s.stack_range.start = USER_STACK_SIZE
           /\ low.end - low.start = 1
           /\ high.end - high.start = 1
           /\ s.stack_guard_base = AddrRangeOf(low)
           /\ s.stack_gurad_top = AddrRangeOf(high)
           /\ low.end = stack.start
           /\ stack.end = high.start
           /\ built.b.stack_top = start_addr(high.start)
           /\ brk.start = high.end
           /\ brk.end = brk.start
           /\ s.brk_start = start_addr(brk.start)
           /\ BrkArea(s).area_type = "UserBrk"
           /\ NoAreaOverlap(s)
           /\ AddrDisjoint(s.elf_area, s.stack_guard_base)
           /\ AddrDisjoint(s.elf_area, s.stack_range)
           /\ AddrDisjoint(s.stack_guard_base, s.stack_range)
           /\ AddrDisjoint(s.stack_range, s.stack_gurad_top)
           /\ AddrDisjoint(s.stack_guard_base, s.stack_gurad_top)

\* C15: for every PT_LOAD segment from_elf creates one Framed area covering
\* the pages [floor(vaddr), ceil(vaddr + msz)) with one frame per page and
\* permissions User plus R/W/X from the flags; the bytes [vaddr, vaddr + fsz)
\* are the file bytes and the bytes [vaddr + fsz, vaddr + msz) read as zero.
SegmentsLoaded ==
    (built.op = "from_elf" /\ ~built.b.memory_space.panic) =>
        \A i \in DOMAIN built.elf.segments :
            LET ph == built.elf.segments[i]
                area == built.b.memory_space.mapping_areas[i]
            IN /\ area.area_type = "UserElf"
               /\ area.map_type = "Framed"
               /\ area.range = from_start_end(to_floor_page_num(ph.virtual_addr),
                                              to_ceil_page_num(SegmentEnd(ph)))
               /\ DOMAIN area.allocated_frames = RangeVpns(area.range)
               /\ Cardinality(AreaFrames(area)) = area.range.end - area.range.start
               /\ area.permissions = segment_permissions(ph.flags)
               /\ \A k \in 1..ph.file_size :
                      ReadByte(built.b, ph.virtual_addr + k - 1) = ph.data[k]
               /\ \A a \in (ph.virtual_addr + ph.file_size)..(SegmentEnd(ph) - 1) :
                      ReadByte(built.b, a) = 0

\* ------------------------------------------------------------------------
\* MemorySpaceBuilder::init_stack
\* ------------------------------------------------------------------------
\* the stack of the new process: USER_STACK_SIZE scaled to StackBytes bytes
\* that end at StackTopAddr
StackTopAddr == 512
StackBytes == 360
\* the length of the longest argument string
LongLen == 16

\* core::mem::size_of::<usize>()
WordBytes == 8

\* 0xdeadbeefu64 at the width of usize here (% UsizeModulus)
DEADBEEF == 48879

\* const PLATFORM: &str = "RISC-V64\0"
PLATFORM == <<82, 73, 83, 67, 45, 86, 54, 52, 0>>

\* AuxVecKey: the number of a key
AuxKey(name) ==
    CASE name = "AT_NULL" -> 0
      [] name = "AT_PHDR" -> 3
      [] name = "AT_PHENT" -> 4
      [] name = "AT_PHNUM" -> 5
      [] name = "AT_PAGESZ" -> 6
      [] name = "AT_BASE" -> 7
      [] name = "AT_FLAGS" -> 8
      [] name = "AT_ENTRY" -> 9
      [] name = "AT_UID" -> 11
      [] name = "AT_EUID" -> 12
      [] name = "AT_GID" -> 13
      [] name = "AT_EGID" -> 14
      [] name = "AT_HWCAP" -> 16
      [] name = "AT_CLKTCK" -> 17
      [] name = "AT_SECURE" -> 23
      [] name = "AT_RANDOM" -> 25

\* VirtualAddress::align_down
align_down(addr, n) == addr - (addr % n)

\* push: activated_copy_val_to_other(self.stack_top, pt, &value); the write is
\* recorded with its size, its value and what init_stack pushed it as
Pushed(st, top, size, value, what) ==
    [st EXCEPT !.stack_top = top,
               !.writes = (top :> [size |-> size, value |-> value, what |-> what]) @@ @]

\* MemorySpaceBuilder::push::<T>(value), size = size_of::<T>(), align = align_of::<T>()
push(st, size, align, value, what) ==
    Pushed(st, align_down(st.stack_top - size, align), size, value, what)

\* for byte in bytes.rev() { self.push(byte) }, from bytes[i] down
RECURSIVE PushBytes(_, _, _, _)
PushBytes(st, bytes, i, what) ==
    IF i = 0 THEN st
    ELSE PushBytes(push(st, 1, 1, bytes[i], what), bytes, i - 1, what)

\* self.push(0u8), then the bytes of the string in reverse
PushString(st, str, what) == PushBytes(push(st, 1, 1, 0, what), str, Len(str), what)

\* envps.push(self.stack_top)
RecordEnv(st) == [st EXCEPT !.envps = Append(@, st.stack_top)]

\* step 1: for env in envp.iter().rev()
RECURSIVE PushEnvs(_, _, _)
PushEnvs(st, envp, i) ==
    IF i = 0 THEN st
    ELSE PushEnvs(RecordEnv(PushString(st, envp[i], "env")), envp, i - 1)

\* argvs.push(self.stack_top)
RecordArg(st) == [st EXCEPT !.argvs = Append(@, st.stack_top)]

\* step 2: for arg in args.iter().rev()
RECURSIVE PushArgs(_, _, _)
PushArgs(st, args, i) ==
    IF i = 0 THEN st
    ELSE PushArgs(RecordArg(PushString(st, args[i], "arg")), args, i - 1)

\* self.stack_top = self.stack_top.align_down(n)
AlignTop(st, n) == [st EXCEPT !.stack_top = align_down(@, n)]

\* step 3: the PLATFORM string, its start aligned to 8 bytes
PushPlatform(st) ==
    PushBytes([st EXCEPT !.stack_top = align_down(@ - Len(PLATFORM), 8) + Len(PLATFORM)],
              PLATFORM, Len(PLATFORM), "platform")

\* let aux_random_base = self.stack_top
RecordRandom(st) == [st EXCEPT !.aux_random_base = st.stack_top]

\* step 4: self.push(0xdeadbeefu64)
PushRandom(st) == RecordRandom(push(st, WordBytes, WordBytes, DEADBEEF, "random"))

\* self.push(AuxVecEntry::new(AT_NULL, 0)): a repr(C) struct of two words, the
\* key at the lower address
PushNullEntry(st) ==
    Pushed(Pushed(st, align_down(st.stack_top - 2 * WordBytes, WordBytes) + WordBytes,
                  WordBytes, 0, "auxv"),
           align_down(st.stack_top - 2 * WordBytes, WordBytes),
           WordBytes, AuxKey("AT_NULL"), "auxv")

\* an aux entry with the key pushed before the value
PushEntry_key_first(st, aux) ==
    push(push(st, WordBytes, WordBytes, AuxKey(aux.key), "auxv"),
         WordBytes, WordBytes, aux.value, "auxv")

\* self.push(aux.value); self.push(aux.key.0)
PushEntry(st, aux) ==
    push(push(st, WordBytes, WordBytes, aux.value, "auxv"),
         WordBytes, WordBytes, AuxKey(aux.key), "auxv")

\* for aux in auxv.iter().rev()
RECURSIVE PushEntries(_, _, _)
PushEntries(st, auxv, i) ==
    IF i = 0 THEN st
    ELSE PushEntries(PushEntry(st, auxv[i]), auxv, i - 1)

\* let auxv = core::mem::take(&mut self.auxv)
TakeAuxv(st) == [st EXCEPT !.auxv = <<>>]

\* step 5: AT_NULL, AT_RANDOM, then the entries from_elf recorded
PushAuxv(st) ==
    TakeAuxv(PushEntries(
        PushEntry(PushNullEntry(AlignTop(st, 16)),
                  [key |-> "AT_RANDOM", value |-> st.aux_random_base]),
        st.auxv, Len(st.auxv)))

\* for p in ptrs.iter() { self.push(*p) }
RECURSIVE PushPointers(_, _, _, _)
PushPointers(st, ptrs, i, what) ==
    IF i > Len(ptrs) THEN st
    ELSE PushPointers(push(st, WordBytes, WordBytes, ptrs[i], what), ptrs, i + 1, what)

\* let envp_base = self.stack_top (stored in self at the end)
RecordEnvpBase(st) == [st EXCEPT !.envp_base = st.stack_top]

\* step 6: NULL, then the envp pointers
PushEnvp(st) ==
    RecordEnvpBase(PushPointers(push(st, WordBytes, WordBytes, 0, "envp"),
                                st.envps, 1, "envp"))

\* let argv_base = self.stack_top (stored in self at the end)
RecordArgvBase(st) == [st EXCEPT !.argv_base = st.stack_top]

\* step 7: NULL, then the argv pointers
PushArgv(st) ==
    RecordArgvBase(PushPointers(push(st, WordBytes, WordBytes, 0, "argv"),
                                st.argvs, 1, "argv"))

\* step 8: self.push(argc); self.argc = argc
PushArgc(st, argc) ==
    [push(st, WordBytes, WordBytes, argc, "argc") EXCEPT !.argc = argc]

\* the builder from_elf returned for the task's image, its stack being the
\* StackBytes bytes below StackTopAddr; no locals, nothing written yet
StackBuilder ==
    [stack_top |-> StackTopAddr, argc |-> 0, argv_base |-> StackTopAddr,
     envp_base |-> StackTopAddr, auxv |-> from_elf(TaskImage, 0).auxv,
     envps |-> <<>>, argvs |-> <<>>, aux_random_base |-> 0,
     writes |-> [a \in {} |-> 0]]

\* argument and environment strings: their bytes
Strings == {<<97>>, <<98, 99>>, [i \in 1..LongLen |-> 120]}

\* lists of at most two strings
StringLists == {<<>>} \cup {<<s>> : s \in Strings}
                   \cup {<<p[1], p[2]>> : p \in Strings \X Strings}

\* MemorySpaceBuilder::init_stack(args, envp) on the builder of a new process:
\* steps 1, 2, 3-4, 5 and 6-8 of init_stack
InitStack(args, envp) ==
    /\ built.op = "none"
    /\ \E s1 \in {PushEnvs(StackBuilder, envp, Len(envp))} :
       \E s2 \in {AlignTop(PushArgs(s1, args, Len(args)), 8)} :
       \E s4 \in {PushRandom(PushPlatform(s2))} :
       \E s5 \in {PushAuxv(s4)} :
       \E s8 \in {PushArgc(PushArgv(PushEnvp(s5)), Len(args))} :
          built' = [op |-> "init_stack", args |-> args, envp |-> envp,
                    self |-> StackBuilder, b |-> s8]
    /\ UNCHANGED <<treeVars, ramVars, memVars, taskVars, fdVars, concVars>>

StackNext == \E args \in StringLists : \E envp \in StringLists : InitStack(args, envp)

\* the word init_stack wrote at addr; -1 when it wrote no word there
WordAt(b, addr) ==
    IF addr \in DOMAIN b.writes /\ b.writes[addr].size = WordBytes
    THEN b.writes[addr].value ELSE -1

\* the byte init_stack wrote at addr; -1 when it wrote no single byte there
ByteAt(b, addr) ==
    IF addr \in DOMAIN b.writes /\ b.writes[addr].size = 1
    THEN b.writes[addr].value ELSE -1

\* a NUL-terminated copy of str starts at addr
IsCString(b, addr, str) ==
    /\ \A k \in 1..Len(str) : ByteAt(b, addr + k - 1) = str[k]
    /\ ByteAt(b, addr + Len(str)) = 0

\* argc, argv and envp as the C runtime reads them from the final stack pointer
ArgsOnStack(b, args, envp) ==
    /\ WordAt(b, b.stack_top) = Len(args)
    /\ b.argc = Len(args)
    /\ b.argv_base = b.stack_top + WordBytes
    /\ \A i \in 1..Len(args) :
          IsCString(b, WordAt(b, b.argv_base + WordBytes * (i - 1)), args[i])
    /\ WordAt(b, b.argv_base + WordBytes * Len(args)) = 0
    /\ b.envp_base = b.argv_base + WordBytes * (Len(args) + 1)
    /\ \A j \in 1..Len(envp) :
          IsCString(b, WordAt(b, b.envp_base + WordBytes * (j - 1)), envp[j])
    /\ WordAt(b, b.envp_base + WordBytes * Len(envp)) = 0

\* every byte init_stack wrote lies in the stack area
WritesInStack(b) ==
    \A addr \in DOMAIN b.writes :
        /\ addr >= StackTopAddr - StackBytes
        /\ addr + b.writes[addr].size <= StackTopAddr

\* C16: after init_stack(args, envp) for any argument and environment lists:
\* the word at the final stack pointer is argc, argv_base is one word above
\* it, argv_base[i] points at a NUL-terminated copy of args[i], argv_base[argc]
\* is 0, the same for envp_base, and all written bytes lie in the stack area.
StackHoldsArgs ==
    built.op = "init_stack" =>
        /\ ArgsOnStack(built.b, built.args, built.envp)
        /\ WritesInStack(built.b)

\* the entries the aux vector must list, upward: those from_elf recorded, then
\* AT_RANDOM, then AT_NULL
ExpectedAuxKeys ==
    <<"AT_PHDR", "AT_PHENT", "AT_PHNUM", "AT_PAGESZ", "AT_BASE", "AT_FLAGS",
      "AT_ENTRY", "AT_UID", "AT_EUID", "AT_GID", "AT_EGID", "AT_HWCAP", "AT_CLKTCK",
      "AT_SECURE", "AT_RANDOM", "AT_NULL">>

\* the address directly above the null terminator of the envp pointer array
AuxBase(b, envp) == b.envp_base + WordBytes * (Len(envp) + 1)

\* C17: after init_stack the aux vector lies directly above the envp array's
\* null terminator as two-word entries, key in the lower word and value in
\* the higher; read upward it lists the entries from_elf recorded in insertion
\* order (AT_PAGESZ = PAGE_SIZE, AT_BASE = 0, AT_FLAGS = 0, AT_ENTRY = e_entry),
\* then AT_RANDOM, then AT_NULL (0, 0); its highest entry ends 16-byte aligned.
AuxVectorLayout ==
    built.op = "init_stack" =>
        /\ Len(built.self.auxv) = Len(ExpectedAuxKeys) - 2
        /\ \A k \in DOMAIN ExpectedAuxKeys :
              /\ WordAt(built.b, AuxBase(built.b, built.envp) + 2 * WordBytes * (k - 1))
                     = AuxKey(ExpectedAuxKeys[k])
              /\ k \in DOMAIN built.self.auxv =>
                    /\ built.self.auxv[k].key = ExpectedAuxKeys[k]
                    /\ WordAt(built.b, AuxBase(built.b, built.envp)
                                           + 2 * WordBytes * (k - 1) + WordBytes)
                           = built.self.auxv[k].value
        /\ WordAt(built.b, AuxBase(built.b, built.envp) + 2 * WordBytes * 3 + WordBytes)
               = PageBytes
        /\ WordAt(built.b, AuxBase(built.b, built.envp) + 2 * WordBytes * 4 + WordBytes) = 0
        /\ WordAt(built.b, AuxBase(built.b, built.envp) + 2 * WordBytes * 5 + WordBytes) = 0
        /\ WordAt(built.b, AuxBase(built.b, built.envp) + 2 * WordBytes * 6 + WordBytes)
               = TaskImage.entry_point
        /\ WordAt(built.b, AuxBase(built.b, built.envp) + 2 * WordBytes * 14 + WordBytes)
               = built.b.aux_random_base
        /\ WordAt(built.b, AuxBase(built.b, built.envp) + 2 * WordBytes * 15 + WordBytes) = 0
        /\ (AuxBase(built.b, built.envp) + 2 * WordBytes * Len(ExpectedAuxKeys)) % 16 = 0

\* init_stack ran with environment strings below the aux vector
AuxVectorLayoutWitness ==
    /\ built.op = "init_stack"
    /\ Len(built.envp) = 2
    /\ Len(built.args) = 1
    /\ WordAt(built.b, AuxBase(built.b, built.envp)) = AuxKey("AT_PHDR")

\* the write of init_stack that covers the byte at addr is random data
RandomByte(b, addr) ==
    \E w \in DOMAIN b.writes :
        /\ w <= addr
        /\ addr < w + b.writes[w].size
        /\ b.writes[w].what = "random"

\* C18: init_stack pushes 16 bytes of random data and AT_RANDOM holds the
\* address of their first byte: the 16 bytes from there on were all written
\* as random data and overlap neither the platform string nor the aux vector.
AuxRandomBytes ==
    built.op = "init_stack" =>
        \A addr \in built.b.aux_random_base..(built.b.aux_random_base + 15) :
            RandomByte(built.b, addr)

\* ------------------------------------------------------------------------
\* File descriptors: sys_openat, sys_close, sys_pipe2 (and write/read through
\* a descriptor of the RAM file)
\* ------------------------------------------------------------------------
\* capacity of the per-task descriptor table
MaxFds == 3

\* FileDescriptor::AT_FDCWD
AT_FDCWD == 0 - 100

\* the task's current working directory: "/"
Cwd == <<"", "">>

\* the inode touch wraps in a node: Arc::new(RamFileInode::new(name))
RamInode == "ram"

Fds == 0..(MaxFds - 1)

\* an empty slot of the table
NoFd == [kind |-> "none", node |-> NoNode, pos |-> 0]

\* a frozen FileDescriptorBuilder over the accessor of an opened inode
FileDescriptorBuilder(inode) == [kind |-> "file", node |-> inode, pos |-> 0]

\* PipeBuilder::open(): the builders of the two ends
PipeBuilder ==
    [read_end_builder |-> [kind |-> "pipe_read", node |-> NoNode, pos |-> 0],
     write_end_builder |-> [kind |-> "pipe_write", node |-> NoNode, pos |-> 0]]

FreeFds(tab) == {i \in Fds : tab[i].kind = "none"}

\* FileDescriptorTable::allocate(builder): the lowest free slot, fd = -1 is None
allocate(tab, builder) ==
    IF FreeFds(tab) = {} THEN [tab |-> tab, fd |-> 0 - 1]
    ELSE LET i == CHOOSE i \in FreeFds(tab) : \A j \in FreeFds(tab) : i <= j
         IN [tab |-> [tab EXCEPT ![i] = builder], fd |-> i]

\* FileDescriptorTable::remove(fd)
remove(tab, fd) == IF fd \in Fds THEN [tab EXCEPT ![fd] = NoFd] ELSE tab

\* FileDescriptorTable::get(fd) is Some
IsOpen(tab, fd) == fd \in Fds /\ tab[fd].kind # "none"

\* DirectoryTreeNode::touch(name)
touch(t, P, name) ==
    IF t.node[P].meta # "Empty" THEN R(t, NoNode, "NotADirectory")
    ELSE mount_as(t, P, RamInode, name)

\* the result of sys_openat: the tree, the table, the descriptor or the error
OpenResult(t, tab, ret, err) == [t |-> t, tab |-> tab, ret |-> ret, err |-> err]

\* .map_err(|_| err): Bound is no error of the code and stays
MapErr(from, err) == IF from = Bound THEN Bound ELSE err

\* open_as_file, cache_as_arc_accessor, the builder, fd_table.allocate(builder);
\* then inode and dir_inode go out of scope
OpenInode(t, tab, dir_inode, inode) ==
    LET a == allocate(tab, FileDescriptorBuilder(inode))
    IN IF a.fd >= 0 THEN OpenResult(Release(t, dir_inode), a.tab, a.fd, NoErr)
       ELSE OpenResult(Release(Release(t, inode), dir_inode), tab, 0 - 1,
                       "BadFileDescriptor")

\* g is the result of global_open(filename, Some(&parent_inode))
Created(g, tab, dir_inode, parent_inode) ==
    IF g.err # NoErr
    THEN OpenResult(Release(Release(g.t, parent_inode), dir_inode), tab, 0 - 1,
                    MapErr(g.err, "OperationCanceled"))
    ELSE OpenInode(Release(g.t, parent_inode), tab, dir_inode, g.ret)

\* c is the result of parent_inode.touch(filename); the Arc it returns is dropped
Touched(c, tab, dir_inode, parent_inode, filename) ==
    IF c.err # NoErr
    THEN OpenResult(Release(Release(c.t, parent_inode), dir_inode), tab, 0 - 1,
                    MapErr(c.err, "OperationNotPermitted"))
    ELSE Created(global_open(Release(c.t, c.ret), <<filename>>, parent_inode),
                 tab, dir_inode, parent_inode)

\* the arm (Err(_), true); p is the result of
\* global_open(parent_inode_path, Some(&dir_inode))
CreateAt(p, tab, dir_inode, filename) ==
    IF p.err # NoErr
    THEN OpenResult(Release(p.t, dir_inode), tab, 0 - 1,
                    MapErr(p.err, "NoSuchFileOrDirectory"))
    ELSE Touched(touch(p.t, p.ret, filename), tab, dir_inode, p.ret, filename)

\* a path that is not fully qualified; r is the result of
\* global_open(&path, Some(&dir_inode))
OpenRelative(r, tab, dir_inode, path, creat) ==
    IF r.err = NoErr THEN OpenInode(r.t, tab, dir_inode, r.ret)
    ELSE IF r.err = Bound THEN OpenResult(r.t, tab, 0 - 1, Bound)
    ELSE IF creat
    THEN CreateAt(global_open(r.t, get_directory_name(path), dir_inode),
                  tab, dir_inode, get_filename(path))
    ELSE OpenResult(Release(r.t, dir_inode), tab, 0 - 1, "NoSuchFileOrDirectory")

\* a fully qualified path; r is the result of global_open(&path, None)
OpenAbsolute(r, tab, dir_inode) ==
    IF r.err # NoErr
    THEN OpenResult(Release(r.t, dir_inode), tab, 0 - 1,
                    MapErr(r.err, "NoSuchFileOrDirectory"))
    ELSE OpenInode(r.t, tab, dir_inode, r.ret)

\* path::remove_relative_segments
remove_relative_segments(path) == Normalize(path)

\* path::get_directory_name(&path) is None: the path has no separator
NoDirectoryName(path) == Len(path) = 1

\* sys_openat after dir_inode was found; the caller holds dir_inode
OpenPath(t, tab, dir_inode, path, creat) ==
    IF is_path_fully_qualified(path)
    THEN OpenAbsolute(global_open(t, path, NoNode), tab, dir_inode)
    ELSE IF NoDirectoryName(path)
    THEN OpenResult(Release(t, dir_inode), tab, 0 - 1, "InvalidArgument")
    ELSE OpenRelative(global_open(t, path, dir_inode), tab, dir_inode, path, creat)

\* dirfd = AT_FDCWD; d is the result of global_open(cwd, None)
OpenFromCwd(d, tab, path, creat) ==
    IF d.err # NoErr THEN OpenResult(d.t, tab, 0 - 1, MapErr(d.err, "NoSuchFileOrDirectory"))
    ELSE OpenPath(d.t, tab, d.ret, remove_relative_segments(path), creat)

\* OpenAtSyscall::handle(dirfd, path, flags, mode); creat = flags contain O_CREAT
openat(t, tab, dirfd, path, creat) ==
    IF dirfd < 0 /\ dirfd # AT_FDCWD THEN OpenResult(t, tab, 0 - 1, "BadFileDescriptor")
    ELSE IF dirfd = AT_FDCWD THEN OpenFromCwd(global_open(t, Cwd, NoNode), tab, path, creat)
    ELSE IF ~IsOpen(tab, dirfd) THEN OpenResult(t, tab, 0 - 1, "BadFileDescriptor")
    ELSE IF tab[dirfd].node = NoNode
    THEN OpenResult(t, tab, 0 - 1, "FileDescriptorInBadState")
    ELSE OpenPath(Hold(t, tab[dirfd].node), tab, tab[dirfd].node,
                  remove_relative_segments(path), creat)

\* sys_pipe2 that leaves the read end in the table when the write end cannot
\* be allocated
pipe2_keeps_read_end(tab, valid, pair) ==
    IF ~valid THEN [tab |-> tab, pair |-> pair, ret |-> 0 - 1, err |-> "BadAddress"]
    ELSE LET r == allocate(tab, PipeBuilder.read_end_builder)
             w == allocate(r.tab, PipeBuilder.write_end_builder)
         IN IF r.fd < 0
            THEN [tab |-> tab, pair |-> pair, ret |-> 0 - 1, err |-> "TooManyOpenFiles"]
            ELSE IF w.fd < 0
            THEN [tab |-> r.tab, pair |-> [pair EXCEPT !.read_end = r.fd],
                  ret |-> 0 - 1, err |-> "TooManyOpenFiles"]
            ELSE [tab |-> w.tab, pair |-> [read_end |-> r.fd, write_end |-> w.fd],
                  ret |-> 0, err |-> NoErr]

\* Pipe2Syscall::handle(p_fd); valid = guard_ptr(p_fd) is Some, pair = *p_fd
pipe2(tab, valid, pair) ==
    IF ~valid THEN [tab |-> tab, pair |-> pair, ret |-> 0 - 1, err |-> "BadAddress"]
    ELSE LET r == allocate(tab, PipeBuilder.read_end_builder)
             w == allocate(r.tab, PipeBuilder.write_end_builder)
         IN IF r.fd < 0
            THEN [tab |-> tab, pair |-> pair, ret |-> 0 - 1, err |-> "TooManyOpenFiles"]
            ELSE IF w.fd < 0
            THEN [tab |-> remove(r.tab, r.fd), pair |-> [pair EXCEPT !.read_end = r.fd],
                  ret |-> 0 - 1, err |-> "TooManyOpenFiles"]
            ELSE [tab |-> w.tab, pair |-> [read_end |-> r.fd, write_end |-> w.fd],
                  ret |-> 0, err |-> NoErr]

\* the FdPair in user memory before any pipe2
NoPair == [read_end |-> 0 - 1, write_end |-> 0 - 1]

\* record of the last system call: its arguments and result, what held before
\* it, and how far the sequence create, write, close, reopen, read has come
NoSyscall ==
    [op |-> "none", dirfd |-> 0, path |-> <<>>, creat |-> FALSE, fd |-> 0 - 1,
     newfd |-> 0 - 1,
     ret |-> 0, err |-> NoErr, before |-> [i \in Fds |-> NoFd],
     dir_ok |-> FALSE, existed |-> FALSE, parent |-> NoNode, same |-> TRUE,
     stage |-> "none", cdirfd |-> 0, cpath |-> <<>>, cfd |-> 0 - 1,
     data |-> <<>>, rdata |-> <<>>, len |-> 0, entries |-> <<>>,
     valid |-> TRUE, cwd |-> <<>>,
     dents |-> [starting_idx |-> 0, offset |-> 0, cursor |-> 0, records |-> <<>>,
                misaligned |-> FALSE]]

FdInit ==
    /\ fd_table = [i \in Fds |-> NoFd]
    /\ fdpair = NoPair
    /\ olast = NoSyscall

\* the directory a path is resolved from: the cwd or the node of dirfd
BaseOf(t, tab, dirfd) ==
    IF dirfd = AT_FDCWD THEN t.root
    ELSE IF IsOpen(tab, dirfd) THEN tab[dirfd].node
    ELSE NoNode

\* the node of the parent directory of path; NoNode when it does not exist
ParentOf(t, base, path) ==
    LET p == global_open(t, get_directory_name(path), base)
    IN IF p.err = NoErr THEN p.ret ELSE NoNode

\* the sequence of the calls goes on with this openat, or starts with it
OpenStage(dirfd, path, creat, created, r) ==
    IF created
    THEN [stage |-> "created", cdirfd |-> dirfd, cpath |-> path, cfd |-> r.ret,
          data |-> <<>>]
    ELSE IF olast.stage = "closed" /\ dirfd = olast.cdirfd /\ path = olast.cpath /\ ~creat
    THEN [stage |-> "reopened", cdirfd |-> dirfd, cpath |-> path, cfd |-> r.ret,
          data |-> olast.data]
    ELSE [stage |-> "none", cdirfd |-> 0, cpath |-> <<>>, cfd |-> 0 - 1, data |-> <<>>]

OpenAtSyscall(dirfd, path, creat) ==
    /\ ~hung
    /\ ~panicked
    /\ \E r \in {openat(Cur, fd_table, dirfd, path, creat)} :
       \E base \in {BaseOf(Cur, fd_table, dirfd)} :
       \E existed \in {global_open(Cur, Normalize(path), base).err = NoErr} :
       \E s \in {OpenStage(dirfd, path, creat, r.err = NoErr /\ creat /\ ~existed, r)} :
          /\ r.err # Bound
          /\ node' = r.t.node
          /\ ROOT' = r.t.root
          /\ held' = r.t.held
          /\ hung' = r.t.hung
          /\ fd_table' = r.tab
          /\ olast' = [NoSyscall EXCEPT !.op = "openat", !.dirfd = dirfd, !.path = path,
                                        !.creat = creat, !.ret = r.ret, !.err = r.err,
                                        !.before = fd_table,
                                        !.dir_ok = (dirfd = AT_FDCWD \/ IsOpen(fd_table, dirfd)),
                                        !.existed = existed,
                                        !.parent = ParentOf(Cur, base, Normalize(path)),
                                        !.same = (r.t = Cur /\ r.tab = fd_table),
                                        !.stage = s.stage, !.cdirfd = s.cdirfd,
                                        !.cpath = s.cpath, !.cfd = s.cfd, !.data = s.data]
          /\ UNCHANGED <<last, mstack, fdpair>>
          /\ UNCHANGED <<ramVars, memVars, taskVars, builderVars, concVars>>

\* CloseSyscall::handle(fd): fd_table.remove(fd) drops the descriptor and with
\* it the Arc of the opened node
CloseSyscall(fd) ==
    /\ ~hung
    /\ ~panicked
    /\ \E t \in {IF IsOpen(fd_table, fd) /\ fd_table[fd].node # NoNode
                 THEN Release(Cur, fd_table[fd].node) ELSE Cur} :
          /\ node' = t.node
          /\ ROOT' = t.root
          /\ held' = t.held
          /\ hung' = t.hung
          /\ fd_table' = remove(fd_table, fd)
          /\ olast' = [NoSyscall EXCEPT !.op = "close", !.fd = fd, !.before = fd_table,
                                        !.stage = IF olast.stage = "written" /\ fd = olast.cfd
                                                  THEN "closed" ELSE "none",
                                        !.cdirfd = olast.cdirfd, !.cpath = olast.cpath,
                                        !.data = olast.data]
          /\ UNCHANGED <<last, mstack, fdpair>>
          /\ UNCHANGED <<ramVars, memVars, taskVars, builderVars, concVars>>

\* fd is a descriptor of the RAM file, at the start of the file
AtRamFile(fd) ==
    /\ IsOpen(fd_table, fd)
    /\ fd_table[fd].node # NoNode
    /\ node[fd_table[fd].node].meta = RamInode
    /\ fd_table[fd].pos = 0

\* write(fd, data): the accessor writes at its cursor through IInode::writeat
WriteSyscall(fd, data) ==
    /\ ~hung
    /\ ~panicked
    /\ AtRamFile(fd)
    /\ \E fresh \in FreshFrames(file, FramesNeeded(file, Len(data))) :
       \E w \in {writeat(file, phys, 0, data, fresh)} :
          /\ file' = w.file
          /\ phys' = w.mem
          /\ panicked' = w.panic
          /\ fd_table' = [fd_table EXCEPT ![fd].pos = w.ret]
          /\ olast' = [NoSyscall EXCEPT !.op = "write", !.fd = fd, !.ret = w.ret,
                                        !.before = fd_table,
                                        !.stage = IF olast.stage = "created" /\ fd = olast.cfd
                                                  THEN "written" ELSE "none",
                                        !.cdirfd = olast.cdirfd, !.cpath = olast.cpath,
                                        !.cfd = olast.cfd, !.data = data]
          /\ UNCHANGED <<io, fdpair>>
          /\ UNCHANGED <<treeVars, memVars, taskVars, builderVars, concVars>>

\* read(fd, len): the accessor reads at its cursor through IInode::readat
ReadSyscall(fd, len) ==
    /\ ~hung
    /\ ~panicked
    /\ AtRamFile(fd)
    /\ \E r \in {readat(file, phys, 0, len)} :
          /\ fd_table' = [fd_table EXCEPT ![fd].pos = r.ret]
          /\ olast' = [NoSyscall EXCEPT !.op = "read", !.fd = fd, !.ret = r.ret,
                                        !.before = fd_table,
                                        !.stage = IF /\ olast.stage = "reopened"
                                                     /\ fd = olast.cfd
                                                     /\ len = Len(olast.data)
                                                  THEN "read" ELSE "none",
                                        !.data = olast.data, !.rdata = r.data]
          /\ UNCHANGED <<file, phys, panicked, io, fdpair>>
          /\ UNCHANGED <<treeVars, memVars, taskVars, builderVars, concVars>>

\* paths of openat calls: /tmp/a, tmp/a, /tmp, /x/a, x/a (no directory x exists)
OpenPaths ==
    {<<"", "tmp", "a">>, <<"tmp", "a">>, <<"", "tmp">>, <<"", "x", "a">>, <<"x", "a">>}

\* what a task writes: less than a page, a whole page
WriteData == {<<1>>, <<2, 1>>}

\* The environment of this specification is one task whose cwd is "/": it
\* opens and creates files, writes and reads at the start of the RAM file and
\* closes descriptors.
OpenNext ==
    \/ \E dirfd \in {AT_FDCWD, 0 - 1} \cup Fds : \E path \in OpenPaths :
       \E creat \in BOOLEAN : OpenAtSyscall(dirfd, path, creat)
    \/ \E fd \in Fds : CloseSyscall(fd)
    \/ \E fd \in Fds : \E data \in WriteData : WriteSyscall(fd, data)
    \/ \E fd \in Fds : \E len \in 1..MaxBuf : ReadSyscall(fd, len)

\* the last call was an openat of a path that did not exist, in a directory that
\* exists, by a task that had a free descriptor
OpensMissingFile ==
    /\ olast.op = "openat"
    /\ olast.dir_ok
    /\ olast.parent # NoNode
    /\ ~olast.existed
    /\ FreeFds(olast.before) # {}

\* the descriptor fd refers to a RAM file mounted in parent under name
IsRamFileAt(fd, parent, name) ==
    /\ IsOpen(fd_table, fd)
    /\ fd_table[fd].node # NoNode
    /\ node[fd_table[fd].node].meta = RamInode
    /\ MapGet(node[parent].mounted, name) = fd_table[fd].node

\* C19: openat of a path that does not exist and whose parent directory exists:
\* with O_CREAT it creates a RAM file at the parent and returns a descriptor of
\* it, without O_CREAT it returns NoSuchFileOrDirectory and creates nothing;
\* after write(fd, data) and close(fd) on the created file, openat of the same
\* path without O_CREAT succeeds and reading from it yields data.
OpenCreateWriteReopen ==
    /\ (OpensMissingFile /\ olast.creat) =>
           /\ olast.err = NoErr
           /\ IsRamFileAt(olast.ret, olast.parent, get_filename(Normalize(olast.path)))
    /\ (OpensMissingFile /\ ~olast.creat) =>
           /\ olast.err = "NoSuchFileOrDirectory"
           /\ olast.same
    /\ olast.stage = "written" => (~panicked /\ olast.ret = Len(olast.data))
    /\ olast.stage = "reopened" => olast.err = NoErr
    /\ olast.stage = "read" => olast.rdata = olast.data

\* Pipe2Syscall::handle
Pipe2Syscall(valid) ==
    /\ \E r \in {pipe2(fd_table, valid, fdpair)} :
          /\ fd_table' = r.tab
          /\ fdpair' = r.pair
          /\ olast' = [NoSyscall EXCEPT !.op = "pipe2", !.ret = r.ret, !.err = r.err,
                                        !.before = fd_table]
    /\ UNCHANGED <<treeVars, ramVars, memVars, taskVars, builderVars, concVars>>

\* The environment of this specification is one task that makes pipes, opens
\* /tmp and closes descriptors.
PipeNext ==
    \/ \E valid \in BOOLEAN : Pipe2Syscall(valid)
    \/ \E fd \in Fds : CloseSyscall(fd)
    \/ OpenAtSyscall(AT_FDCWD, <<"", "tmp">>, FALSE)

\* C20: pipe2 allocates both descriptors or none: when it returns
\* TooManyOpenFiles the table is exactly as before the call, whether the first
\* or the second allocation failed; when it succeeds the two descriptors it
\* stored are distinct, were free before and are live, the read end and the
\* write end of the pipe.
PipeAllocatesBothOrNone ==
    olast.op = "pipe2" =>
        /\ olast.err \in {NoErr, "TooManyOpenFiles", "BadAddress"}
        /\ olast.err # NoErr => fd_table = olast.before
        /\ olast.err # "BadAddress" =>
               ((olast.err = "TooManyOpenFiles")
                    <=> (Cardinality(FreeFds(olast.before)) < 2))
        /\ olast.err = NoErr =>
               /\ fdpair.read_end # fdpair.write_end
               /\ fdpair.read_end \in FreeFds(olast.before)
               /\ fdpair.write_end \in FreeFds(olast.before)
               /\ fd_table[fdpair.read_end].kind = "pipe_read"
               /\ fd_table[fdpair.write_end].kind = "pipe_write"
               /\ \A i \in Fds \ {fdpair.read_end, fdpair.write_end} :
                      fd_table[i] = olast.before[i]

\* pipe2 failed at the write end: one descriptor was free before the call
PipeAllocatesBothOrNoneWitness ==
    /\ olast.op = "pipe2"
    /\ olast.err = "TooManyOpenFiles"
    /\ Cardinality(FreeFds(olast.before)) = 1
    /\ fd_table = olast.before

\* ------------------------------------------------------------------------
\* sys_dup3
\* ------------------------------------------------------------------------
\* FileDescriptorTable::allocate_at(builder, fd): the slot fd when the table
\* has it and it is free, fd = -1 is None
allocate_at(tab, builder, fd) ==
    IF fd \in Fds /\ tab[fd].kind = "none"
    THEN [tab |-> [tab EXCEPT ![fd] = builder], fd |-> fd]
    ELSE [tab |-> tab, fd |-> 0 - 1]

\* the Arc of the opened node that a descriptor of the table holds is dropped
DropDescriptor(t, tab, fd) ==
    IF IsOpen(tab, fd) /\ tab[fd].node # NoNode THEN Release(t, tab[fd].node) ELSE t

\* FrozenFileDescriptorBuilder::deconstruct(&old): a builder over the same
\* accessor; it holds one more Arc of the opened node
deconstruct(t, old) == IF old.node # NoNode THEN Hold(t, old.node) ELSE t

\* if fd_table.get(newfd).is_some() { fd_table.remove(newfd) }
CloseIfOpen(tab, newfd) == IF IsOpen(tab, newfd) THEN remove(tab, newfd) ELSE tab

\* a is the result of allocate_at(builder, newfd); the builder is dropped when
\* it was not stored
Dup3Placed(t, a, builder, newfd) ==
    IF a.fd >= 0 THEN OpenResult(t, a.tab, a.fd, NoErr)
    ELSE OpenResult(IF builder.node # NoNode THEN Release(t, builder.node) ELSE t,
                    a.tab, 0 - 1, "TooManyOpenFiles")

\* Dup3Syscall::handle(oldfd, newfd, flags)
dup3(t, tab, oldfd, newfd) ==
    IF oldfd = newfd THEN OpenResult(t, tab, newfd, NoErr)
    ELSE IF ~IsOpen(tab, oldfd) THEN OpenResult(t, tab, 0 - 1, "BadFileDescriptor")
    ELSE Dup3Placed(DropDescriptor(deconstruct(t, tab[oldfd]), tab, newfd),
                    allocate_at(CloseIfOpen(tab, newfd), tab[oldfd], newfd),
                    tab[oldfd], newfd)

Dup3Syscall(oldfd, newfd) ==
    /\ ~hung
    /\ ~panicked
    /\ \E r \in {dup3(Cur, fd_table, oldfd, newfd)} :
          /\ node' = r.t.node
          /\ ROOT' = r.t.root
          /\ held' = r.t.held
          /\ hung' = r.t.hung
          /\ fd_table' = r.tab
          /\ olast' = [NoSyscall EXCEPT !.op = "dup3", !.fd = oldfd, !.newfd = newfd,
                                        !.ret = r.ret, !.err = r.err,
                                        !.before = fd_table]
    /\ UNCHANGED <<last, mstack, fdpair>>
    /\ UNCHANGED <<ramVars, memVars, taskVars, builderVars, concVars>>

\* The environment of this specification is one task that makes pipes, opens
\* /tmp, duplicates and closes descriptors; MaxFds is a slot the table lacks.
DupNext ==
    \/ \E oldfd \in 0..MaxFds : \E newfd \in 0..MaxFds : Dup3Syscall(oldfd, newfd)
    \/ Pipe2Syscall(TRUE)
    \/ \E fd \in Fds : CloseSyscall(fd)
    \/ OpenAtSyscall(AT_FDCWD, <<"", "tmp">>, FALSE)

\* C21: dup3(old, new, flags) with old open and new a slot of the table
\* returns new, slot new then holds the descriptor of old and every other slot,
\* old included, is as before; with old not open it returns BadFileDescriptor
\* and leaves the table unchanged, for every value of new.
Dup3Contract ==
    olast.op = "dup3" =>
        IF IsOpen(olast.before, olast.fd)
        THEN olast.newfd \in Fds =>
                 /\ olast.err = NoErr
                 /\ olast.ret = olast.newfd
                 /\ fd_table[olast.newfd] = olast.before[olast.fd]
                 /\ \A i \in Fds \ {olast.newfd} : fd_table[i] = olast.before[i]
        ELSE /\ olast.err = "BadFileDescriptor"
             /\ fd_table = olast.before

\* ------------------------------------------------------------------------
\* sys_exit and sys_nanosleep: one task, the clock and a second hart that
\* reads the task control block
\* ------------------------------------------------------------------------
\* the clock stops at MaxTime
MaxTime == 4
\* exit codes and sleep lengths are 1..MaxCode, 0..MaxSleep
MaxCode == 2
MaxSleep == 2

\* the task is in no system call
NotRunning ==
    [call |-> "none", pc |-> "user", code |-> 0, ts |-> 0, entry |-> 0, end |-> 0,
     ret |-> 0, polled_at |-> 0, yielded |-> FALSE, returned_at |-> 0]

SchedInit ==
    /\ task_status = "Running"
    /\ exit_code = 0
    /\ now = 0
    /\ running = NotRunning
    /\ seen = [status |-> "Running", exit_code |-> 0]

\* the hardware clock advances
Tick ==
    /\ now < MaxTime
    /\ now' = now + 1
    /\ UNCHANGED <<task_status, exit_code, running, seen>>
    /\ UNCHANGED <<treeVars, ramVars, memVars, taskVars, builderVars, fdVars, raceVars, kmsgVars>>

\* ExitSyscall::handle, first statement: *ctx.tcb.task_status.lock() = Exited
ExitSetStatus(code) ==
    /\ running.call = "none"
    /\ task_status = "Running"
    /\ task_status' = "Exited"
    /\ running' = [NotRunning EXCEPT !.call = "exit", !.pc = "status_set", !.code = code]
    /\ UNCHANGED <<exit_code, now, seen>>
    /\ UNCHANGED <<treeVars, ramVars, memVars, taskVars, builderVars, fdVars, raceVars, kmsgVars>>

\* ExitSyscall::handle, second statement: ctx.tcb.exit_code.store(code), Ok(0)
ExitStoreCode ==
    /\ running.call = "exit"
    /\ running.pc = "status_set"
    /\ exit_code' = running.code
    /\ running' = [running EXCEPT !.pc = "done", !.ret = 0]
    /\ UNCHANGED <<task_status, now, seen>>
    /\ UNCHANGED <<treeVars, ramVars, memVars, taskVars, builderVars, fdVars, raceVars, kmsgVars>>

\* the other hart reads the status and the exit code of the task
Observe ==
    /\ seen' = [status |-> task_status, exit_code |-> exit_code]
    /\ seen' # seen
    /\ UNCHANGED <<task_status, exit_code, now, running>>
    /\ UNCHANGED <<treeVars, ramVars, memVars, taskVars, builderVars, fdVars, raceVars, kmsgVars>>

\* let end = start + *guard
Deadline(start, ts) == start + ts

\* while current_timespec() < end: the future is Pending
StillSleeping(current, end) == current < end

\* a sleep whose loop ends one tick early
sleep_first_poll_short(r, current, valid) ==
    IF ~valid THEN [NotRunning EXCEPT !.ret = 0 - 1, !.returned_at = current]
    ELSE [NotRunning EXCEPT !.call = "nanosleep", !.pc = "loop", !.ts = r.ts,
                            !.entry = current,
                            !.end = IF r.ts > 0 THEN Deadline(current, r.ts) - 1
                                    ELSE Deadline(current, r.ts)]

\* sys_nanosleep_async up to the loop: valid = the guard of req is Some,
\* r.ts = *guard, current = current_timespec()
sleep_first_poll(r, current, valid) ==
    IF ~valid THEN [NotRunning EXCEPT !.ret = 0 - 1, !.returned_at = current]
    ELSE [NotRunning EXCEPT !.call = "nanosleep", !.pc = "loop", !.ts = r.ts,
                            !.entry = current, !.end = Deadline(current, r.ts)]

\* one turn of the loop: yield_now().await when the deadline is ahead, else Ok(0)
sleep_poll(r, current) ==
    IF StillSleeping(current, r.end)
    THEN [r EXCEPT !.pc = "yielded", !.polled_at = current, !.yielded = TRUE]
    ELSE [NotRunning EXCEPT !.ts = r.ts, !.entry = r.entry, !.end = r.end, !.ret = 0,
                            !.polled_at = current, !.returned_at = current,
                            !.yielded = r.yielded, !.pc = "returned"]

\* the task calls nanosleep(req)
NanosleepEnter(ts, valid) ==
    /\ running.call = "none"
    /\ task_status = "Running"
    /\ now + ts <= MaxTime
    /\ running' = sleep_first_poll([NotRunning EXCEPT !.ts = ts], now, valid)
    /\ UNCHANGED <<task_status, exit_code, now, seen>>
    /\ UNCHANGED <<treeVars, ramVars, memVars, taskVars, builderVars, fdVars, raceVars, kmsgVars>>

\* the loop condition is evaluated: the future yields or completes
NanosleepPoll ==
    /\ running.call = "nanosleep"
    /\ running.pc = "loop"
    /\ running' = sleep_poll(running, now)
    /\ UNCHANGED <<task_status, exit_code, now, seen>>
    /\ UNCHANGED <<treeVars, ramVars, memVars, taskVars, builderVars, fdVars, raceVars, kmsgVars>>

\* the scheduler polls the future again: yield_now() is ready
Repoll ==
    /\ running.call = "nanosleep"
    /\ running.pc = "yielded"
    /\ running' = [running EXCEPT !.pc = "loop"]
    /\ UNCHANGED <<task_status, exit_code, now, seen>>
    /\ UNCHANGED <<treeVars, ramVars, memVars, taskVars, builderVars, fdVars, raceVars, kmsgVars>>

SchedNext ==
    \/ Tick
    \/ \E code \in 1..MaxCode : ExitSetStatus(code)
    \/ ExitStoreCode
    \/ Observe
    \/ \E ts \in 0..MaxSleep : \E valid \in BOOLEAN : NanosleepEnter(ts, valid)
    \/ NanosleepPoll
    \/ Repoll

\* C25: whenever the status of an exiting task is Exited, and whenever another
\* hart has read it as Exited, the code passed to exit(code) is already stored
\* in exit_code.
ExitedAfterHandler ==
    /\ (task_status = "Exited" => exit_code = running.code)
    /\ (seen.status = "Exited" => seen.exit_code = running.code)

\* in the sleep the deadline is (time at entry) + ts; a poll yielded exactly
\* when it saw a time below the deadline; 0 is returned at or after the deadline
SleepsUntilDeadline ==
    /\ running.call = "nanosleep" =>
           /\ running.end = running.entry + running.ts
           /\ running.pc = "yielded" => running.polled_at < running.end
    /\ (running.pc = "returned") =>
           /\ running.ret = 0
           /\ running.end = running.entry + running.ts
           /\ running.returned_at >= running.end
           /\ now >= running.end

\* C26: nanosleep with a valid timespec computes the deadline once as the time
\* at entry plus ts, yields on every poll that sees a time below the deadline,
\* never returns 0 before the deadline and, as time advances and the task is
\* polled again, eventually returns 0.
NanosleepContract ==
    /\ []SleepsUntilDeadline
    /\ (running.call = "nanosleep") ~> (running.pc = "returned")

\* a sleep that yielded, was polled again and returned 0 at its deadline
NanosleepContractWitness ==
    /\ running.pc = "returned"
    /\ running.yielded
    /\ running.ts = MaxSleep
    /\ running.returned_at = running.end

\* ------------------------------------------------------------------------
\* Two harts inside mount_as / mount_empty: mount_as takes the parent's
\* mutex twice (remove, then insert), mount_empty holds it throughout
\* ------------------------------------------------------------------------
\* PROCESSOR_COUNT
Harts == 1..2

IdleHart ==
    [call |-> "none", pc |-> "idle", p |-> NoNode, name |-> "", new |-> NoNode,
     was |-> NoNode, ret |-> NoNode, err |-> NoErr, altered |-> FALSE]

RaceInit == harts = [h \in Harts |-> IdleHart]

\* mount_as up to the release of the first guard: the new node is made, the
\* node mounted at the name is taken out of the map and becomes its shadowed
mount_as_remove(t, P, inode, name) ==
    IF ~CanAlloc(t) THEN R(t, NoNode, Bound)
    ELSE
    LET new == Alloc(t)
        t1 == Hold([t EXCEPT !.node[new] = from_inode(P, inode, TRUE, name)], new)
        mounted == MapGet(t1.node[P].mounted, name)
        t2 == IF mounted # NoNode
              THEN [t1 EXCEPT !.node[P].mounted = MapRemove(@, name),
                              !.node[new].shadowed = mounted]
              ELSE t1
    IN R(t2, new, NoErr)

\* mount_as from the second lock(): insert(name, inode.clone()), then
\* Ok(inode) when the map had no entry, else FileExists
mount_as_insert(t, P, name, new) ==
    LET old == MapGet(t.node[P].mounted, name)
        t3 == [t EXCEPT !.node[P].mounted = MapPut(@, name, new)]
    IN IF old = NoNode THEN R(t3, new, NoErr)
       ELSE R(Collect(Release(t3, new), old, {P}), NoNode, "FileExists")

RaceBecomes(t, hs) ==
    /\ node' = t.node
    /\ ROOT' = t.root
    /\ held' = t.held
    /\ hung' = t.hung
    /\ harts' = hs
    /\ UNCHANGED <<last, mstack>>
    /\ UNCHANGED <<ramVars, memVars, taskVars, builderVars, fdVars, schedVars, kmsgVars>>

\* hart h enters mount_as and runs it up to the release of the first guard
MountAsRemove(h, P, inode, name) ==
    /\ ~hung
    /\ harts[h].pc = "idle"
    /\ \E r \in {mount_as_remove(Cur, P, inode, name)} :
          /\ r.err # Bound
          /\ RaceBecomes(r.t, [harts EXCEPT ![h] =
                 [IdleHart EXCEPT !.call = "mount_as", !.pc = "removed", !.p = P,
                                  !.name = name, !.new = r.ret,
                                  !.was = MapGet(node[P].mounted, name)]])

\* hart h takes the parent's mutex again and inserts its node
MountAsInsert(h) ==
    /\ ~hung
    /\ harts[h].pc = "removed"
    /\ \E r \in {mount_as_insert(Cur, harts[h].p, harts[h].name, harts[h].new)} :
          RaceBecomes(r.t, [harts EXCEPT ![h] =
              [@ EXCEPT !.pc = "done", !.ret = r.ret, !.err = r.err,
                        !.altered = (r.t.node[harts[h].p].mounted
                                         # node[harts[h].p].mounted)]])

\* hart h runs mount_empty: one critical section
MountEmptyCall(h, P, name) ==
    /\ ~hung
    /\ harts[h].pc = "idle"
    /\ \E r \in {mount_empty(Cur, P, name)} :
          /\ r.err # Bound
          /\ RaceBecomes(r.t, [harts EXCEPT ![h] =
                 [IdleHart EXCEPT !.call = "mount_empty", !.pc = "done", !.p = P,
                                  !.name = name, !.new = r.ret, !.ret = r.ret,
                                  !.err = r.err,
                                  !.was = MapGet(node[P].mounted, name),
                                  !.altered = (r.t.node[P].mounted # node[P].mounted)]])

\* the parents the harts mount on: the root and its child "mnt"
RaceParents == {ROOT, MapGet(node[ROOT].mounted, "mnt")} \ {NoNode}

RaceNext ==
    \/ \E h \in Harts : \E P \in RaceParents : \E inode \in MountableInodes :
       \E name \in MountNames : MountAsRemove(h, P, inode, name)
    \/ \E h \in Harts : MountAsInsert(h)
    \/ \E h \in Harts : \E P \in RaceParents : \E name \in MountNames :
           MountEmptyCall(h, P, name)

\* n is m or a node of the shadowed chain below m
RECURSIVE InChain(_, _, _)
InChain(m, n, fuel) ==
    IF m = NoNode \/ fuel = 0 THEN FALSE
    ELSE m = n \/ InChain(node[m].shadowed, n, fuel - 1)

MountedOrShadowed(P, name, n) ==
    InChain(MapGet(node[P].mounted, name), n, Cardinality(Nodes))

\* C28: once the harts have left their mount calls, every node a call returned
\* with Ok and every node that was mounted at the name when a call began is
\* the parent's mounted child at that name or in its shadowed chain, and a
\* call that returned FileExists has left the parent's mounted map as it was.
NoMountLost ==
    (\A h \in Harts : harts[h].pc = "done") =>
        \A h \in Harts :
            /\ harts[h].err = NoErr =>
                   MountedOrShadowed(harts[h].p, harts[h].name, harts[h].ret)
            /\ harts[h].was # NoNode =>
                   MountedOrShadowed(harts[h].p, harts[h].name, harts[h].was)
            /\ harts[h].err = "FileExists" => ~harts[h].altered

\* ------------------------------------------------------------------------
\* sys_getdents64
\* ------------------------------------------------------------------------
\* core::mem::size_of::<LinuxDirEntry64>(): u64, u64, u16, u8, [u8; 0] in
\* repr(C) is 19 bytes, padded to the alignment of u64
DirentHeader == 24

\* core::mem::align_of::<LinuxDirEntry64>()
DirentAlign == 8

\* the lengths of the user buffers
MaxDentLen == 96

DentLens == {0, 28, 29, 64, MaxDentLen}

\* the addresses of the user buffers, modulo the alignment of a record
DentBases == {0, 4}

\* size_of::<LinuxDirEntry64>() + name.len() + 1
entry_size(entry) == DirentHeader + Len(entry.filename) + 1

\* the loop over entries.iter().enumerate(): idx counts from 0, d holds the
\* bytes written so far, the cursor, the records and whether a reference to a
\* record at a misaligned address was made
RECURSIVE emit_entries(_, _, _, _, _)
emit_entries(entries, idx, len, base, d) ==
    IF idx >= Len(entries) THEN d
    ELSE IF idx < d.starting_idx THEN emit_entries(entries, idx + 1, len, base, d)
    ELSE IF d.offset + entry_size(entries[idx + 1]) > len THEN d
    ELSE emit_entries(entries, idx + 1, len, base,
             [d EXCEPT !.offset = @ + entry_size(entries[idx + 1]),
                       !.cursor = idx + 1,
                       !.records = Append(@, [idx |-> idx, at |-> d.offset,
                                              name |-> entries[idx + 1].filename,
                                              entry_len |-> entry_size(entries[idx + 1])]),
                       !.misaligned = @ \/ (base + d.offset) % DirentAlign # 0])

NoDents == [starting_idx |-> 0, offset |-> 0, cursor |-> 0, records |-> <<>>,
            misaligned |-> FALSE]

DentResult(tab, ret, err, d, panic) ==
    [tab |-> tab, ret |-> ret, err |-> err, d |-> d, panic |-> panic]

\* GetDents64Syscall::handle(fd, p_buf, len); valid = the guard of the buffer
\* is Some, base = p_buf modulo the alignment of a record, trap = the build
\* stops at a reference to a misaligned record
getdents64(t, tab, fd, len, base, valid, trap) ==
    IF ~valid THEN DentResult(tab, 0 - 1, "BadAddress", NoDents, FALSE)
    ELSE IF ~IsOpen(tab, fd) THEN DentResult(tab, 0 - 1, "BadFileDescriptor", NoDents, FALSE)
    ELSE IF tab[fd].node = NoNode
    THEN DentResult(tab, 0 - 1, "FileDescriptorInBadState", NoDents, FALSE)
    ELSE LET dir == read_dir(t, tab[fd].node)
             d == emit_entries(dir.entries, 0, len, base,
                               [NoDents EXCEPT !.starting_idx = tab[fd].pos,
                                               !.cursor = tab[fd].pos])
         IN IF dir.err # NoErr THEN DentResult(tab, 0 - 1, "NotADirectory", NoDents, FALSE)
            ELSE DentResult([tab EXCEPT ![fd].pos = d.cursor], d.offset, NoErr, d,
                            d.misaligned /\ trap)

GetDents64Syscall(fd, len, base, valid, trap) ==
    /\ ~hung
    /\ ~panicked
    /\ \E r \in {getdents64(Cur, fd_table, fd, len, base, valid, trap)} :
          /\ fd_table' = r.tab
          /\ panicked' = r.panic
          /\ olast' = [NoSyscall EXCEPT !.op = "getdents64", !.fd = fd, !.ret = r.ret,
                                        !.err = r.err, !.before = fd_table,
                                        !.len = len, !.dents = r.d,
                                        !.entries =
                                            IF IsOpen(fd_table, fd)
                                               /\ fd_table[fd].node # NoNode
                                            THEN read_dir(Cur, fd_table[fd].node).entries
                                            ELSE <<>>]
    /\ UNCHANGED <<file, phys, io, fdpair>>
    /\ UNCHANGED <<treeVars, memVars, taskVars, builderVars, concVars>>

\* The environment of this specification is one task that holds one
\* descriptor at a time: "/", "/tmp", a new file in /tmp or a pipe end; it reads
\* directory entries into buffers of several lengths and alignments.
DentNext ==
    \/ /\ FreeFds(fd_table) = Fds
       /\ \/ \E path \in {RootPath, <<"", "tmp">>} : OpenAtSyscall(AT_FDCWD, path, FALSE)
          \/ OpenAtSyscall(AT_FDCWD, <<"tmp", "a">>, TRUE)
          \/ Pipe2Syscall(TRUE)
    \/ \E fd \in Fds : IsOpen(fd_table, fd) /\ CloseSyscall(fd)
    \/ \E fd \in Fds : \E len \in DentLens : \E base \in DentBases :
       \E valid \in BOOLEAN : \E trap \in BOOLEAN :
           GetDents64Syscall(fd, len, base, valid, trap)

\* the sum of the record sizes of entries[from + 1 .. from + k]
RECURSIVE RecordBytes(_, _, _)
RecordBytes(entries, from, k) ==
    IF k = 0 THEN 0
    ELSE RecordBytes(entries, from, k - 1) + entry_size(entries[from + k])

\* the number of entries after the cursor c whose records fit in len bytes
FitCount(entries, c, len) ==
    CHOOSE k \in 0..Len(entries) :
        /\ c + k <= Len(entries) \/ k = 0
        /\ (k > 0 => RecordBytes(entries, c, k) <= len)
        /\ \A j \in (k + 1)..(Len(entries) - c) : RecordBytes(entries, c, j) > len

\* C22: a getdents64 call on a directory descriptor with cursor c and a valid
\* buffer of len bytes returns without a panic; it emits the entries from e_c
\* on in order, as many as fit in len bytes, returns the bytes emitted and
\* leaves the cursor at c plus the number of entries emitted; at the end of the
\* directory it returns 0.
GetdentsEmitsInOrder ==
    (olast.op = "getdents64" /\ olast.err = NoErr) =>
        LET c == olast.before[olast.fd].pos
            k == FitCount(olast.entries, c, olast.len)
            recs == olast.dents.records
        IN /\ ~panicked
           /\ Len(recs) = k
           /\ \A j \in 1..k : /\ recs[j].name = olast.entries[c + j].filename
                              /\ recs[j].at = RecordBytes(olast.entries, c, j - 1)
           /\ olast.ret = RecordBytes(olast.entries, c, k)
           /\ olast.ret <= olast.len
           /\ fd_table[olast.fd].pos = c + k
           /\ (c >= Len(olast.entries) => olast.ret = 0)

\* ------------------------------------------------------------------------
\* Spin mutexes of the tree nodes: remove and rmdir call close, and close
\* drops the removed Arc while it holds the node's guard
\* ------------------------------------------------------------------------
\* IInode::remove(name) of a tree node; the backing inode's remove is not
\* called for a name that was mounted
node_remove(t, P, name) ==
    LET c == close(t, P, name)
    IN IF c.t.hung THEN R(c.t, NoNode, NoErr)
       ELSE IF c.unmounted THEN R(c.t, NoNode, NoErr)
       ELSE IF t.node[P].meta = "Empty" THEN R(c.t, NoNode, NoErr)
       ELSE R(c.t, NoNode, IF name \in DOMAIN InodeEntries(t.node[P].meta)
                           THEN NoErr ELSE "NotFound")

\* IInode::rmdir(name) of a tree node
rmdir(t, P, name) == node_remove(t, P, name)

Remove(P, name) ==
    /\ ~hung
    /\ \E r \in {node_remove(Cur, P, name)} :
          Becomes(r.t, [NoLast EXCEPT !.op = "remove", !.p = P, !.name = name,
                                      !.err = r.err,
                                      !.was_mounted = MapGet(node[P].mounted, name)])

Rmdir(P, name) ==
    /\ ~hung
    /\ \E r \in {rmdir(Cur, P, name)} :
          Becomes(r.t, [NoLast EXCEPT !.op = "rmdir", !.p = P, !.name = name,
                                      !.err = r.err,
                                      !.was_mounted = MapGet(node[P].mounted, name)])

\* the names the task removes: a directory of initialize() and the mount names
RemoveNames == {"tmp"} \cup MountNames

\* The environment of this specification mounts on the nodes it holds and on
\* the root, drops its references, lists and removes entries.
LockNext ==
    \/ \E P \in Callers : \E inode \in MountableInodes : \E name \in MountNames :
           MountAs(P, inode, name)
    \/ \E n \in Nodes : ReleaseNode(n)
    \/ \E P \in Callers : ReadDir(P)
    \/ \E P \in Callers : \E name \in RemoveNames : Remove(P, name)
    \/ \E P \in Callers : \E name \in RemoveNames : Rmdir(P, name)

\* C27: no operation of the tree, nor a Drop handler it triggers, locks the
\* spin mutex of a node whose guard the same hart holds: every operation
\* completes.
NoSelfDeadlock == ~hung

\* ------------------------------------------------------------------------
\* System calls that take a user pointer and a dirfd: the page guard, the
\* dirfd test and the directory the path starts at
\* ------------------------------------------------------------------------
\* Err(-1): the handler writes the number, no constant of SyscallError
MinusOne == "Err(-1)"

\* MountError::to_syscall_error
to_syscall_error(e) ==
    CASE e = "InvalidInput" -> "InvalidArgument"
      [] e = "NotADirectory" -> "NoSuchFileOrDirectory"
      [] e = "FileExists" -> "FileExists"
      [] e = "FileNotExists" -> "NoSuchFileOrDirectory"
      [] e = "AlreadyMounted" -> "DeviceOrResourceBusy"
      [] OTHER -> e

\* a dir_inode block that starts at the root whatever the working directory is
DirInode_from_root(t, tab, dirfd, cwd) ==
    IF dirfd = AT_FDCWD THEN global_open(t, <<"", "">>, NoNode)
    ELSE IF ~IsOpen(tab, dirfd) THEN R(t, NoNode, "BadFileDescriptor")
    ELSE IF tab[dirfd].node = NoNode THEN R(t, NoNode, "FileDescriptorInBadState")
    ELSE R(Hold(t, tab[dirfd].node), tab[dirfd].node, NoErr)

\* the block `let dir_inode = if dirfd == AT_FDCWD {..} else {..}` of openat,
\* mkdirat, newfstatat and unlinkat; the handler holds the node it returns
DirInode(t, tab, dirfd, cwd) ==
    IF dirfd = AT_FDCWD
    THEN LET d == global_open(t, cwd, NoNode)
         IN IF d.err # NoErr THEN R(d.t, NoNode, MapErr(d.err, "NoSuchFileOrDirectory"))
            ELSE d
    ELSE IF ~IsOpen(tab, dirfd) THEN R(t, NoNode, "BadFileDescriptor")
    ELSE IF tab[dirfd].node = NoNode THEN R(t, NoNode, "FileDescriptorInBadState")
    ELSE R(Hold(t, tab[dirfd].node), tab[dirfd].node, NoErr)

\* IInode::mkdir(name) of a tree node; a backing inode makes no directory here
mkdir(t, P, name) ==
    IF name \in DOMAIN t.node[P].mounted THEN R(t, NoNode, "AlreadyExists")
    ELSE IF t.node[P].meta # "Empty" THEN R(t, NoNode, "NotADirectory")
    ELSE mount_empty(t, P, name)

\* m is the result of parent_inode.mkdir(filename); its Arc, parent_inode and
\* dir_inode are dropped
MadeDir(m, tab, dir_inode, parent_inode) ==
    IF m.err = Bound THEN OpenResult(m.t, tab, 0 - 1, Bound)
    ELSE IF m.err # NoErr
    THEN OpenResult(Release(Release(m.t, parent_inode), dir_inode), tab, 0 - 1,
                    "OperationNotPermitted")
    ELSE OpenResult(Release(Release(Release(m.t, m.ret), parent_inode), dir_inode),
                    tab, 0, NoErr)

\* p is the result of global_open(parent_inode_path, Some(&dir_inode))
MkdirIn(p, tab, dir_inode, filename) ==
    IF p.t.hung THEN OpenResult(p.t, tab, 0, NoErr)
    ELSE IF p.err # NoErr
    THEN OpenResult(Release(p.t, dir_inode), tab, 0 - 1,
                    MapErr(p.err, "NoSuchFileOrDirectory"))
    ELSE MadeDir(mkdir(p.t, p.ret, filename), tab, dir_inode, p.ret)

\* MkdirAtSyscall::handle(dirfd, path, mode); valid = the guard of path is Some
mkdirat(t, tab, dirfd, path, valid, cwd) ==
    IF dirfd < 0 /\ dirfd # AT_FDCWD THEN OpenResult(t, tab, 0 - 1, "BadFileDescriptor")
    ELSE IF ~valid THEN OpenResult(t, tab, 0 - 1, "BadAddress")
    ELSE LET d == DirInode(t, tab, dirfd, cwd)
             p == remove_relative_segments(path)
         IN IF d.err # NoErr \/ d.t.hung THEN OpenResult(d.t, tab, 0 - 1, d.err)
            ELSE IF NoDirectoryName(p)
            THEN OpenResult(Release(d.t, d.ret), tab, 0 - 1, "InvalidArgument")
            ELSE MkdirIn(global_open(d.t, get_directory_name(p), d.ret), tab, d.ret,
                         get_filename(p))

\* u is the result of parent_inode.remove(filename)
Unlinked(u, tab, dir_inode, parent_inode) ==
    IF u.t.hung THEN OpenResult(u.t, tab, 0, NoErr)
    ELSE OpenResult(Release(Release(u.t, parent_inode), dir_inode), tab,
                    IF u.err = NoErr THEN 0 ELSE 0 - 1,
                    IF u.err = NoErr THEN NoErr ELSE "NoSuchFileOrDirectory")

\* p is the result of global_open(parent_path, Some(&dir_inode))
UnlinkIn(p, tab, dir_inode, filename) ==
    IF p.t.hung THEN OpenResult(p.t, tab, 0, NoErr)
    ELSE IF p.err # NoErr
    THEN OpenResult(Release(p.t, dir_inode), tab, 0 - 1,
                    MapErr(p.err, "NoSuchFileOrDirectory"))
    ELSE Unlinked(node_remove(p.t, p.ret, filename), tab, dir_inode, p.ret)

\* UnlinkAtSyscall::handle(dirfd, path, flags)
unlinkat(t, tab, dirfd, path, valid, cwd) ==
    IF dirfd < 0 /\ dirfd # AT_FDCWD THEN OpenResult(t, tab, 0 - 1, "BadFileDescriptor")
    ELSE IF ~valid THEN OpenResult(t, tab, 0 - 1, "BadAddress")
    ELSE LET d == DirInode(t, tab, dirfd, cwd)
         IN IF d.err # NoErr \/ d.t.hung THEN OpenResult(d.t, tab, 0 - 1, d.err)
            ELSE IF NoDirectoryName(path)
            THEN OpenResult(Release(d.t, d.ret), tab, 0 - 1, "InvalidArgument")
            ELSE UnlinkIn(global_open(d.t, get_directory_name(path), d.ret), tab, d.ret,
                          get_filename(path))

\* g is the result of global_open(path, ..); inode.stat fills the buffer, then
\* inode and dir_inode are dropped
Statted(g, tab, dir_inode) ==
    IF g.t.hung THEN OpenResult(g.t, tab, 0, NoErr)
    ELSE IF g.err # NoErr
    THEN OpenResult(Release(g.t, dir_inode), tab, 0 - 1,
                    MapErr(g.err, "NoSuchFileOrDirectory"))
    ELSE OpenResult(Release(Release(g.t, g.ret), dir_inode), tab, 0, NoErr)

\* NewFstatatSyscall::handle(dirfd, path, stat); path_ok and stat_ok = the
\* guards of the two pointers are Some
newfstatat(t, tab, dirfd, path, path_ok, stat_ok, cwd) ==
    IF dirfd < 0 /\ dirfd # AT_FDCWD THEN OpenResult(t, tab, 0 - 1, "BadFileDescriptor")
    ELSE IF ~(path_ok /\ stat_ok) THEN OpenResult(t, tab, 0 - 1, "BadAddress")
    ELSE LET d == DirInode(t, tab, dirfd, cwd)
         IN IF d.err # NoErr \/ d.t.hung THEN OpenResult(d.t, tab, 0 - 1, d.err)
            ELSE Statted(global_open(d.t, path,
                                     IF is_path_fully_qualified(path) THEN NoNode
                                     ELSE d.ret),
                         tab, d.ret)

\* NewFstatSyscall::handle(fd, buf)
newfstat(t, tab, fd, valid) ==
    IF ~valid THEN OpenResult(t, tab, 0 - 1, "BadAddress")
    ELSE IF ~IsOpen(tab, fd) THEN OpenResult(t, tab, 0 - 1, "BadFileDescriptor")
    ELSE IF tab[fd].node = NoNode
    THEN OpenResult(t, tab, 0 - 1, "FileDescriptorInBadState")
    ELSE OpenResult(t, tab, 0, NoErr)

\* OpenAtSyscall::handle with the guard of the path: the dirfd test comes first
openat_guarded(t, tab, dirfd, path, creat, valid) ==
    IF dirfd < 0 /\ dirfd # AT_FDCWD THEN OpenResult(t, tab, 0 - 1, "BadFileDescriptor")
    ELSE IF ~valid THEN OpenResult(t, tab, 0 - 1, "BadAddress")
    ELSE openat(t, tab, dirfd, path, creat)

\* DummyFileSystem.root_dir(): a directory inode
DummyRootDir == "d0"

\* MountSyscall::handle(source, target, ..): the node global_mount returns is
\* dropped
sys_mount(t, tab, path, valid) ==
    IF ~valid THEN OpenResult(t, tab, 0 - 1, "BadAddress")
    ELSE LET r == global_mount(t, DummyRootDir, path, NoNode)
         IN IF r.err = Bound THEN OpenResult(t, tab, 0 - 1, Bound)
            ELSE IF r.err # NoErr \/ r.t.hung
            THEN OpenResult(r.t, tab, 0 - 1, to_syscall_error(r.err))
            ELSE OpenResult(Release(r.t, r.ret), tab, 0, NoErr)

\* UmountSyscall::handle(target, flags)
sys_umount(t, tab, path, valid) ==
    IF ~valid THEN OpenResult(t, tab, 0 - 1, "BadAddress")
    ELSE LET r == global_umount(t, path, NoNode)
         IN IF r.err = Bound THEN OpenResult(t, tab, 0 - 1, Bound)
            ELSE IF r.err # NoErr \/ r.t.hung
            THEN OpenResult(r.t, tab, 0 - 1, to_syscall_error(r.err))
            ELSE OpenResult(Release(r.t, r.ret), tab, 0, NoErr)

\* TimesSyscall::handle(p_tms): the timers are read, the user's Tms is written
times(t, tab, valid) ==
    IF ~valid THEN OpenResult(t, tab, 0 - 1, MinusOne)
    ELSE OpenResult(t, tab, 0, NoErr)

\* the nanosleep call as the other handlers report theirs
NanosleepResult(t, tab, r) ==
    OpenResult(t, tab, r.ret, IF r.ret = 0 - 1 THEN MinusOne ELSE NoErr)

\* the fully qualified path of `path` for a task whose working directory is cwd
FromCwd(cwd, path) == IF is_path_fully_qualified(path) THEN path ELSE cwd \o path

\* the handler `op` ran with these arguments and left r
SysBecomes(r, op, dirfd, path, valid, cwd) ==
    /\ ~hung
    /\ ~panicked
    /\ r.err # Bound
    /\ node' = r.t.node
    /\ ROOT' = r.t.root
    /\ held' = r.t.held
    /\ hung' = r.t.hung
    /\ fd_table' = r.tab
    /\ olast' = [NoSyscall EXCEPT !.op = op, !.dirfd = dirfd, !.path = path,
                                  !.ret = r.ret, !.err = r.err, !.before = fd_table,
                                  !.same = (r.t = Cur /\ r.tab = fd_table),
                                  !.valid = valid, !.cwd = cwd,
                                  !.parent =
                                      IF cwd # <<>> /\ path # <<>>
                                      THEN ParentOf(Cur, NoNode, FromCwd(cwd, path))
                                      ELSE NoNode,
                                  !.existed =
                                      /\ cwd # <<>>
                                      /\ path # <<>>
                                      /\ global_open(Cur, FromCwd(cwd, path), NoNode).err = NoErr]
    /\ UNCHANGED <<last, mstack, fdpair>>
    /\ UNCHANGED <<ramVars, memVars, taskVars, builderVars, concVars>>

OpenAtCall(dirfd, path, creat, valid) ==
    \E r \in {openat_guarded(Cur, fd_table, dirfd, path, creat, valid)} :
        SysBecomes(r, "openat", dirfd, path, valid, Cwd)

MkdirAtSyscall(dirfd, path, valid, cwd) ==
    \E r \in {mkdirat(Cur, fd_table, dirfd, path, valid, cwd)} :
        SysBecomes(r, "mkdirat", dirfd, path, valid, cwd)

UnlinkAtSyscall(dirfd, path, valid, cwd) ==
    \E r \in {unlinkat(Cur, fd_table, dirfd, path, valid, cwd)} :
        SysBecomes(r, "unlinkat", dirfd, path, valid, cwd)

NewFstatatSyscall(dirfd, path, path_ok, stat_ok, cwd) ==
    \E r \in {newfstatat(Cur, fd_table, dirfd, path, path_ok, stat_ok, cwd)} :
        SysBecomes(r, "newfstatat", dirfd, path, path_ok /\ stat_ok, cwd)

NewFstatSyscall(fd, valid) ==
    \E r \in {newfstat(Cur, fd_table, fd, valid)} :
        SysBecomes(r, "newfstat", fd, <<>>, valid, <<>>)

SysMount(path, valid) ==
    \E r \in {sys_mount(Cur, fd_table, path, valid)} :
        SysBecomes(r, "mount", 0, path, valid, <<>>)

SysUmount(path, valid) ==
    \E r \in {sys_umount(Cur, fd_table, path, valid)} :
        SysBecomes(r, "umount", 0, path, valid, <<>>)

TimesSyscall(valid) ==
    \E r \in {times(Cur, fd_table, valid)} :
        SysBecomes(r, "times", 0, <<>>, valid, <<>>)

\* sys_nanosleep_async that returns at its first poll: the guard is None or
\* the timespec is zero
NanosleepSyscall(valid) ==
    \E s \in {sleep_first_poll(NotRunning, now, valid)} :
    \E r \in {NanosleepResult(Cur, fd_table, IF valid THEN sleep_poll(s, now) ELSE s)} :
        SysBecomes(r, "nanosleep", 0, <<>>, valid, <<>>)

Pipe2Call(valid) ==
    /\ ~hung
    /\ \E r \in {pipe2(fd_table, valid, fdpair)} :
          /\ fd_table' = r.tab
          /\ fdpair' = r.pair
          /\ olast' = [NoSyscall EXCEPT !.op = "pipe2", !.ret = r.ret, !.err = r.err,
                                        !.before = fd_table, !.valid = valid,
                                        !.same = (r.tab = fd_table)]
    /\ UNCHANGED <<treeVars, ramVars, memVars, taskVars, builderVars, concVars>>

GetDents64Call(fd, len, valid) ==
    /\ ~hung
    /\ ~panicked
    /\ \E r \in {getdents64(Cur, fd_table, fd, len, 0, valid, FALSE)} :
          /\ fd_table' = r.tab
          /\ olast' = [NoSyscall EXCEPT !.op = "getdents64", !.fd = fd, !.ret = r.ret,
                                        !.err = r.err, !.before = fd_table,
                                        !.len = len, !.dents = r.d, !.valid = valid,
                                        !.same = (r.tab = fd_table)]
    /\ UNCHANGED <<fdpair>>
    /\ UNCHANGED <<treeVars, ramVars, memVars, taskVars, builderVars, concVars>>

\* the working directories of the task
Cwds == {RootPath, <<"", "tmp">>}

\* the paths of mkdirat, unlinkat and newfstatat
AtPaths == {<<"", "tmp", "d">>, <<"tmp", "d">>, <<"d", "e">>}

\* the arguments of mkdirat, unlinkat and newfstatat: dirfd, path, whether the
\* guard accepts the path, and the working directory
AtArgs ==
    {<<AT_FDCWD, path, TRUE, cwd>> : path \in AtPaths, cwd \in Cwds}
        \cup {<<0 - 1, <<"tmp", "d">>, valid, RootPath>> : valid \in BOOLEAN}
        \cup {<<0, <<"d", "e">>, TRUE, RootPath>>, <<AT_FDCWD, <<"tmp", "d">>, FALSE, RootPath>>}

\* The environment of this specification is one task that calls every
\* handler with a pointer the page guard accepts or refuses; it holds one
\* descriptor or one pipe at a time.
SysNext ==
    \/ \E dirfd \in {AT_FDCWD, 0 - 1, 0} : \E valid \in BOOLEAN :
           FreeFds(fd_table) = Fds /\ OpenAtCall(dirfd, <<"", "tmp">>, FALSE, valid)
    \/ \E a \in AtArgs : MkdirAtSyscall(a[1], a[2], a[3], a[4])
    \/ \E a \in AtArgs : UnlinkAtSyscall(a[1], a[2], a[3], a[4])
    \/ \E a \in AtArgs : \E stat_ok \in BOOLEAN :
           NewFstatatSyscall(a[1], a[2], a[3], stat_ok, a[4])
    \/ \E fd \in {0, 1} : \E valid \in BOOLEAN : NewFstatSyscall(fd, valid)
    \/ \E valid \in BOOLEAN : SysMount(<<"", "mnt">>, valid)
    \/ \E valid \in BOOLEAN : SysUmount(<<"", "mnt">>, valid)
    \/ \E valid \in BOOLEAN : TimesSyscall(valid)
    \/ \E valid \in BOOLEAN : NanosleepSyscall(valid)
    \/ \E valid \in BOOLEAN : FreeFds(fd_table) = Fds /\ Pipe2Call(valid)
    \/ \E fd \in {0, 1} : \E valid \in BOOLEAN : GetDents64Call(fd, 64, valid)
    \/ \E fd \in Fds : IsOpen(fd_table, fd) /\ CloseSyscall(fd)

PointerCalls ==
    {"pipe2", "openat", "mount", "umount", "mkdirat", "newfstatat", "newfstat",
     "getdents64", "unlinkat", "times", "nanosleep"}

\* the call ran the page guard and the guard refused the pointer
GuardRefused ==
    /\ olast.op \in PointerCalls
    /\ ~olast.valid
    /\ ~(olast.op \in {"openat", "mkdirat", "unlinkat", "newfstatat"}
           /\ olast.dirfd < 0 /\ olast.dirfd # AT_FDCWD)

\* C23: a handler whose page guard refuses the user pointer returns BadAddress
\* and leaves the descriptor table and the directory tree as they were.
BadPointerIsBadAddress ==
    GuardRefused => (olast.err = "BadAddress" /\ olast.same)

AtCalls == {"openat", "mkdirat", "unlinkat", "newfstatat"}

Shadowing(t) == [root |-> t.root, mounted |-> t.node[t.root].mounted]

\* global_mount(inode, "/", None); keep = the caller keeps the Arc it got
RootMount(inode, keep) ==
    /\ ~hung
    /\ Len(mstack) < MaxNest
    /\ \E r \in {global_mount(Cur, inode, RootPath, NoNode)} :
       \E t1 \in {IF keep THEN r.t ELSE Release(r.t, r.ret)} :
          /\ r.err # Bound
          /\ TotalHeld(t1) <= MaxHeld
          /\ node' = t1.node
          /\ ROOT' = t1.root
          /\ held' = t1.held
          /\ hung' = t1.hung
          /\ last' = [NoLast EXCEPT !.op = "global_mount", !.inode = inode,
                                    !.ret = r.ret, !.err = r.err, !.p = ROOT]
          /\ mstack' = <<Shadowing(Cur)>> \o mstack
          /\ UNCHANGED exceptTree

\* global_umount("/", None) after a root mount; the Arc it returns is dropped
RootUmount ==
    /\ ~hung
    /\ mstack # <<>>
    /\ \E r \in {global_umount(Cur, RootPath, NoNode)} :
       \E t1 \in {IF r.err = NoErr /\ ~r.t.hung THEN Release(r.t, r.ret) ELSE r.t} :
          /\ r.err # Bound
          /\ node' = t1.node
          /\ ROOT' = t1.root
          /\ held' = t1.held
          /\ hung' = t1.hung
          /\ last' = [NoLast EXCEPT !.op = "global_umount", !.ret = r.ret, !.err = r.err,
                                    !.p = ROOT, !.popped = Head(mstack),
                                    !.unwound = IF last.op = "global_umount"
                                                THEN last.unwound + 1 ELSE 1]
          /\ mstack' = Tail(mstack)
          /\ UNCHANGED exceptTree

\* The environment of this specification mounts roots, mounts on the current
\* root and on what it holds, drops its references and unmounts the roots.
RootNext ==
    \/ \E inode \in {"d0", "f1"} : \E keep \in BOOLEAN : RootMount(inode, keep)
    \/ RootUmount
    \/ \E inode \in MountableInodes : \E name \in MountNames : MountAs(ROOT, inode, name)
    \/ \E n \in Nodes : held[n] > 0 /\ ReleaseNode(n)

\* the k-th node of the shadowed chain of n
RECURSIVE ShadowedAt(_, _)
ShadowedAt(n, k) ==
    IF k = 0 \/ n = NoNode THEN n ELSE ShadowedAt(node[n].shadowed, k - 1)

\* C29: global_mount(I, "/") makes a new node around I the root and keeps the
\* previous root as its shadowed node; the following global_umount("/") makes
\* that previous root, with its mounted children, the root again; the roots
\* under nested root mounts are restored in last-in-first-out order.
RootMountsAreLifo ==
    /\ ~hung
    /\ \A k \in 1..Len(mstack) :
           /\ ShadowedAt(ROOT, k) = mstack[k].root
           /\ node[mstack[k].root].live
           /\ node[mstack[k].root].mounted = mstack[k].mounted
    /\ last.op = "global_mount" =>
           /\ last.err = NoErr
           /\ ROOT = last.ret
           /\ ROOT # last.p
           /\ node[ROOT].meta = last.inode
           /\ node[ROOT].shadowed = last.p
    /\ last.op = "global_umount" =>
           /\ last.err = NoErr
           /\ ROOT = last.popped.root
           /\ last.ret = ROOT
           /\ node[ROOT].live
           /\ node[ROOT].mounted = last.popped.mounted

\* MaxNest nested root mounts were undone by MaxNest umounts: the root is the
\* root of initialize() with its thirteen directories
RootMountsAreLifoWitness ==
    /\ last.op = "global_umount"
    /\ last.unwound = MaxNest
    /\ mstack = <<>>
    /\ ROOT = initialize.root
    /\ node[ROOT].mounted = initialize.node[initialize.root].mounted

\* ------------------------------------------------------------------------
\* open_child that fails: the lookup or the metadata of the inode it found
\* ------------------------------------------------------------------------
\* open_child that enters the name in `opened` before it looks the name up
open_child_enters_first(t, P, name, meta_ok) ==
    LET r == open_child(t, P, name)
    IN IF r.err \notin {NoErr, Bound} /\ IsPlainName(name)
       THEN R([r.t EXCEPT !.node[P].opened = MapPut(@, name, NoNode)], NoNode, r.err)
       ELSE r

\* DirectoryTreeNode::open_child(name); meta_ok = inode.metadata() of the
\* inode the lookup returned is Ok
open_child_meta(t, P, name, meta_ok) ==
    LET found == lookup(t, P, name)
        reaches_lookup == /\ IsPlainName(name)
                          /\ MapGet(t.node[P].mounted, name) = NoNode
                          /\ ~Upgrades(t, MapGet(t.node[P].opened, name))
    IN IF reaches_lookup /\ found.err = NoErr /\ ~meta_ok
       THEN R(t, NoNode, "InvalidInput")
       ELSE open_child(t, P, name)

OpenChildMeta(P, name, meta_ok) ==
    /\ ~hung
    /\ TotalHeld(Cur) < MaxHeld
    /\ \E r \in {open_child_meta(Cur, P, name, meta_ok)} :
          /\ r.err # Bound
          /\ Becomes(r.t, [NoLast EXCEPT !.op = "open_child", !.p = P, !.name = name,
                                         !.ret = r.ret, !.err = r.err,
                                         !.meta_ok = meta_ok,
                                         !.was = [mounted |-> node[P].mounted,
                                                  opened |-> node[P].opened]])

\* names the task opens: "a" and "f" are entries of the disk, "zz" is not
ChildNames == {"a", "f", "zz", ".."}

\* The environment of this specification mounts the disk as the root and at
\* names of the nodes it holds, opens children and drops its references.
ChildNext ==
    \/ \E P \in Callers : \E name \in ChildNames : \E meta_ok \in BOOLEAN :
           OpenChildMeta(P, name, meta_ok)
    \/ \E P \in Callers : \E name \in MountNames : MountAs(P, "d0", name)
    \/ node[ROOT].meta = "Empty" /\ GlobalMount("d0", RootPath)
    \/ \E n \in Nodes : ReleaseNode(n)

\* C30: an open_child that fails has left the opened map and the mounted map
\* of the parent exactly as they were before the call.
FailedOpenChildChangesNothing ==
    (last.op = "open_child" /\ last.err # NoErr) =>
        /\ last.ret = NoNode
        /\ node[last.p].opened = last.was.opened
        /\ node[last.p].mounted = last.was.mounted
        /\ (node[last.p].meta = "Empty" => last.err = "NotFound")

\* the metadata of a looked-up inode failed in a parent that has an opened
\* child and a mounted child
FailedOpenChildChangesNothingWitness ==
    /\ last.op = "open_child"
    /\ last.err # NoErr
    /\ ~last.meta_ok
    /\ node[last.p].meta # "Empty"
    /\ node[last.p].opened # EmptyMap
    /\ node[last.p].mounted # EmptyMap

\* a lookup failed in an Empty node that has mounted children
FailedLookupInEmptyNode ==
    /\ last.op = "open_child"
    /\ last.err = "NotFound"
    /\ node[last.p].meta = "Empty"
    /\ node[last.p].mounted # EmptyMap

\* ------------------------------------------------------------------------
\* The tree right after initialize()
\* ------------------------------------------------------------------------
\* global_open(path, None); the caller keeps the node
GlobalOpen(path) ==
    /\ ~hung
    /\ TotalHeld(Cur) < MaxHeld
    /\ \E r \in {global_open(Cur, path, NoNode)} :
          /\ r.err # Bound
          /\ ~r.t.hung
          /\ Becomes(r.t, [NoLast EXCEPT !.op = "global_open", !.ret = r.ret,
                                         !.err = r.err])

BootPaths == {<<"", "">>, <<"", "dev">>, <<"", "var">>}

\* The environment of this specification opens the root and initial
\* directories, lists the nodes it holds, mounts the disk on them and drops its
\* references.
BootNext ==
    \/ \E path \in BootPaths : GlobalOpen(path)
    \/ \E P \in Callers : ReadDir(P)
    \/ \E P \in Callers : MountAs(P, "d0", "m")
    \/ \E n \in Nodes : ReleaseNode(n)

\* no map of the tree has changed since initialize()
FreshTree == node = initialize.node /\ ROOT = initialize.root

BootNames ==
    {"boot", "dev", "etc", "home", "root", "opt", "mnt", "proc", "sys", "tmp", "run",
     "usr", "var"}

\* C31: right after initialize() the global root is an Empty node without
\* parent whose mounted children are the 13 Empty initial directories;
\* read_dir of the root returns these 13 names, each once and as a Directory,
\* and read_dir of an initial directory returns no entry.
FreshRootListsInitialDirs ==
    FreshTree =>
        /\ ROOT # NoNode
        /\ node[ROOT].meta = "Empty"
        /\ node[ROOT].parent = NoNode
        /\ node[ROOT].shadowed = NoNode
        /\ DOMAIN node[ROOT].mounted = BootNames
        /\ Cardinality(BootNames) = 13
        /\ \A name \in BootNames :
              LET child == node[ROOT].mounted[name]
              IN /\ node[child].meta = "Empty"
                 /\ node[child].mounted = EmptyMap
                 /\ node[child].parent = ROOT
                 /\ node[child].name = name
        /\ (last.op = "read_dir" /\ last.p = ROOT) =>
              /\ last.err = NoErr
              /\ Len(last.entries) = 13
              /\ EntryNames(last.entries) = BootNames
              /\ \A k \in 1..13 : last.entries[k].entry_type = "Directory"
        /\ (last.op = "read_dir" /\ last.p # ROOT) =>
              /\ last.err = NoErr
              /\ last.entries = <<>>

\* read_dir("/") right after initialize()
FreshRootListsInitialDirsWitness ==
    /\ FreshTree
    /\ last.op = "read_dir"
    /\ last.p = ROOT
    /\ Len(last.entries) = 13

\* read_dir("/dev") right after initialize()
FreshDevIsEmpty ==
    /\ FreshTree
    /\ last.op = "read_dir"
    /\ last.p = node[ROOT].mounted["dev"]
    /\ last.entries = <<>>

\* ------------------------------------------------------------------------
\* mkdir and touch of a tree node
\* ------------------------------------------------------------------------
\* what inode.mkdir(name) or inode.touch(name) of a backing inode answers:
\* Ok with an inode that is no node of the tree, or an error
InodeAnswers == {NoErr, "NotADirectory", "AlreadyExists"}

\* MountError::to_filesystem_error
to_filesystem_error(e) ==
    CASE e = "FileExists" -> "AlreadyExists"
      [] e = "FileNotExists" -> "NotFound"
      [] e = "AlreadyMounted" -> "InvalidInput"
      [] OTHER -> e

\* DirectoryTreeNode::mkdir(name); answer is the answer of the backing inode
node_mkdir(t, P, name, answer) ==
    IF name \in DOMAIN t.node[P].mounted THEN R(t, NoNode, "AlreadyExists")
    ELSE IF t.node[P].meta # "Empty" THEN R(t, NoNode, answer)
    ELSE LET m == mount_empty(t, P, name)
         IN R(m.t, m.ret, to_filesystem_error(m.err))

\* DirectoryTreeNode::touch(name); answer is the answer of the backing inode
node_touch(t, P, name, answer) ==
    IF t.node[P].meta # "Empty" THEN R(t, NoNode, answer)
    ELSE LET m == mount_as(t, P, RamInode, name)
         IN R(m.t, m.ret, to_filesystem_error(m.err))

MkBecomes(r, op, P, name, answer) ==
    /\ r.err # Bound
    /\ Becomes(r.t, [NoLast EXCEPT !.op = op, !.p = P, !.name = name,
                                   !.ret = r.ret, !.err = r.err, !.answer = answer,
                                   !.was_mounted = MapGet(node[P].mounted, name),
                                   !.was = [mounted |-> node[P].mounted,
                                            opened |-> node[P].opened]])

Mkdir(P, name, answer) ==
    /\ ~hung
    /\ TotalHeld(Cur) < MaxHeld
    /\ \E r \in {node_mkdir(Cur, P, name, answer)} : MkBecomes(r, "mkdir", P, name, answer)

Touch(P, name, answer) ==
    /\ ~hung
    /\ TotalHeld(Cur) < MaxHeld
    /\ \E r \in {node_touch(Cur, P, name, answer)} : MkBecomes(r, "touch", P, name, answer)

\* names given to mkdir and touch: "f" is an entry of the disk, "m" is not,
\* "." is the name open_child resolves to the node itself
MkNames == {"f", "m", "."}

\* The environment of this specification makes directories and files in the
\* root and the nodes it holds, mounts the disk on them and drops its
\* references.
MkNext ==
    \/ \E P \in Callers : \E name \in MkNames : \E answer \in InodeAnswers :
           Mkdir(P, name, answer)
    \/ \E P \in Callers : \E name \in MkNames : \E answer \in InodeAnswers :
           Touch(P, name, answer)
    \/ \E P \in Callers : MountAs(P, "d0", "m")
    \/ \E n \in Nodes : ReleaseNode(n)

\* mkdir or touch made a child of an Empty node
MadeChild ==
    /\ last.op \in {"mkdir", "touch"}
    /\ node[last.p].meta = "Empty"
    /\ last.op = "mkdir" => last.was_mounted = NoNode

\* the child is mounted at the name: Empty for mkdir, an empty RAM file for touch
ChildIsMounted ==
    /\ last.err = NoErr
    /\ last.ret # NoNode
    /\ MapGet(node[last.p].mounted, last.name) = last.ret
    /\ node[last.ret].parent = last.p
    /\ node[last.ret].shadowed = last.was_mounted
    /\ node[last.ret].meta = IF last.op = "mkdir" THEN "Empty" ELSE RamInode
    /\ last.op = "touch" => InodeType(RamInode) = "File" /\ RamFileInodeNew.size = 0

\* a following open_child(name) returns the child
ChildIsOpened ==
    LET o == open_child(Cur, last.p, last.name)
    IN o.err = NoErr /\ o.ret = last.ret

\* mkdir of a mounted name fails and leaves the mounted map as it was
MkdirOfMountedFails ==
    (last.op = "mkdir" /\ last.was_mounted # NoNode) =>
        /\ last.err = "AlreadyExists"
        /\ last.ret = NoNode
        /\ node[last.p].mounted = last.was.mounted

\* on an inode-backed node the answer is the inode's and the maps stay
Delegated ==
    (/\ last.op \in {"mkdir", "touch"}
     /\ node[last.p].meta # "Empty"
     /\ last.op = "mkdir" => last.was_mounted = NoNode) =>
        /\ last.err = last.answer
        /\ node[last.p].mounted = last.was.mounted
        /\ node[last.p].opened = last.was.opened

\* C32: on an Empty node mkdir(name) mounts a new Empty child and touch(name)
\* a new empty RAM file at name, and a following open_child(name) returns that
\* child; on an inode-backed node both are delegated to the inode; mkdir of a
\* mounted name returns AlreadyExists and leaves the mounted map unchanged.
MkdirTouchMountChild ==
    /\ MadeChild => (ChildIsMounted /\ ChildIsOpened)
    /\ MkdirOfMountedFails
    /\ Delegated

\* the same for the names open_child looks up in the maps
MkdirTouchMountPlainChild ==
    /\ (MadeChild /\ IsPlainName(last.name)) => (ChildIsMounted /\ ChildIsOpened)
    /\ MadeChild => ChildIsMounted
    /\ MkdirOfMountedFails
    /\ Delegated

\* ------------------------------------------------------------------------
\* Kernel message ring (/dev/kmsg)
\* ------------------------------------------------------------------------
RingIndex == 0..(BUFFER_CAPACITY - 1)

\* static DMESG_BUFFER
KmsgInit ==
    /\ dmesg = [buffer |-> [i \in RingIndex |-> 0], head |-> 0, tail |-> 0, len |-> 0]
    /\ written = <<>>
    /\ klast = [op |-> "none", offset |-> 0, buf_len |-> 0, ret |-> 0, data |-> <<>>]

\* while dmesg.len + write_len > BUFFER_CAPACITY: the oldest byte is dropped
RECURSIVE MakeRoom(_, _)
MakeRoom(d, write_len) ==
    IF d.len + write_len > BUFFER_CAPACITY
    THEN MakeRoom([d EXCEPT !.head = (d.head + 1) % BUFFER_CAPACITY, !.len = d.len - 1],
                  write_len)
    ELSE d

\* for &b in msg_bytes: the byte is stored at tail and tail advances
RECURSIVE StoreBytes(_, _)
StoreBytes(d, msg_bytes) ==
    IF msg_bytes = <<>> THEN d
    ELSE StoreBytes([d EXCEPT !.buffer[d.tail] = Head(msg_bytes),
                              !.tail = (d.tail + 1) % BUFFER_CAPACITY],
                    Tail(msg_bytes))

\* push_message that does not drop the oldest bytes of a full ring
push_message_keeps_head(d, msg_bytes) ==
    LET write_len == Len(msg_bytes)
        stored == StoreBytes(d, msg_bytes)
    IN [d |-> [stored EXCEPT !.len = Min(d.len + write_len, BUFFER_CAPACITY)],
        ret |-> write_len]

\* push_message
push_message(d, msg_bytes) ==
    LET write_len == Len(msg_bytes)
    IN IF write_len > BUFFER_CAPACITY
       THEN LET start == write_len - BUFFER_CAPACITY
            IN [d |-> [buffer |-> [i \in RingIndex |-> msg_bytes[start + i + 1]],
                       head |-> 0, tail |-> 0, len |-> BUFFER_CAPACITY],
                ret |-> BUFFER_CAPACITY]
       ELSE LET room == MakeRoom(d, write_len)
                stored == StoreBytes(room, msg_bytes)
            IN [d |-> [stored EXCEPT !.len = room.len + write_len], ret |-> write_len]

\* KernelMessageInode::readat(offset, buffer): the count and the bytes stored
\* in the buffer
kmsg_readat(d, offset, buf_len) ==
    IF offset >= d.len THEN [ret |-> 0, data |-> <<>>]
    ELSE LET readable_len == Min(buf_len, d.len - offset)
         IN [ret |-> readable_len,
             data |-> [i \in 1..readable_len |->
                          d.buffer[(d.head + (i - 1) + offset) % BUFFER_CAPACITY]]]

\* read_dmesg(buffer)
read_dmesg(d, buf_len) ==
    LET read_len == Min(buf_len, d.len)
    IN [ret |-> read_len,
        data |-> [i \in 1..read_len |-> d.buffer[(d.head + (i - 1)) % BUFFER_CAPACITY]]]

KmsgUnchanged ==
    UNCHANGED <<treeVars, ramVars, memVars, taskVars, builderVars, fdVars, schedVars,
                raceVars>>

\* KernelMessageInode::writeat and LegacyConsole::write_str
PushMessage(msg_bytes) ==
    /\ Len(written) + Len(msg_bytes) <= MaxWritten
    /\ LET r == push_message(dmesg, msg_bytes)
       IN /\ dmesg' = r.d
          /\ written' = written \o msg_bytes
          /\ klast' = [op |-> "push_message", offset |-> 0, buf_len |-> Len(msg_bytes),
                       ret |-> r.ret, data |-> <<>>]
    /\ KmsgUnchanged

KmsgReadat(offset, buf_len) ==
    /\ LET r == kmsg_readat(dmesg, offset, buf_len)
       IN klast' = [op |-> "readat", offset |-> offset, buf_len |-> buf_len,
                    ret |-> r.ret, data |-> r.data]
    /\ UNCHANGED <<dmesg, written>>
    /\ KmsgUnchanged

ReadDmesg(buf_len) ==
    /\ LET r == read_dmesg(dmesg, buf_len)
       IN klast' = [op |-> "read_dmesg", offset |-> 0, buf_len |-> buf_len,
                    ret |-> r.ret, data |-> r.data]
    /\ UNCHANGED <<dmesg, written>>
    /\ KmsgUnchanged

\* messages of every length up to one more than the capacity
Messages == SeqsUpTo(Bytes, BUFFER_CAPACITY + 1)

KmsgLens == 0..(BUFFER_CAPACITY + 1)

KmsgNext ==
    \/ \E msg_bytes \in Messages : PushMessage(msg_bytes)
    \/ \E offset \in KmsgLens : \E buf_len \in KmsgLens : KmsgReadat(offset, buf_len)
    \/ \E buf_len \in KmsgLens : ReadDmesg(buf_len)

\* the last min(n, capacity) bytes written
Retained ==
    LET n == Len(written)
    IN SubSeq(written, n - Min(n, BUFFER_CAPACITY) + 1, n)

\* the content of the ring read from head
RingContent ==
    [i \in 1..dmesg.len |-> dmesg.buffer[(dmesg.head + (i - 1)) % BUFFER_CAPACITY]]

\* C33: after writes totalling n bytes len = min(n, capacity), tail =
\* (head + len) mod capacity, and the content read from head is the last
\* min(n, capacity) bytes written, in write order; readat(o, buf) returns
\* min(|buf|, len - o) bytes of it from position o, and nothing for o >= len.
RingKeepsLastBytes ==
    /\ dmesg.len = Min(Len(written), BUFFER_CAPACITY)
    /\ dmesg.len <= BUFFER_CAPACITY
    /\ dmesg.head \in RingIndex
    /\ dmesg.tail = (dmesg.head + dmesg.len) % BUFFER_CAPACITY
    /\ RingContent = Retained
    /\ klast.op = "readat" =>
          /\ klast.ret = IF klast.offset >= dmesg.len THEN 0
                         ELSE Min(klast.buf_len, dmesg.len - klast.offset)
          /\ klast.data = SubSeq(Retained, klast.offset + 1, klast.offset + klast.ret)
    /\ klast.op = "read_dmesg" =>
          /\ klast.ret = Min(klast.buf_len, dmesg.len)
          /\ klast.data = SubSeq(Retained, 1, klast.ret)

\* a read from the middle of a ring that has wrapped and dropped bytes
RingKeepsLastBytesWitness ==
    /\ klast.op = "readat"
    /\ Len(written) > BUFFER_CAPACITY
    /\ dmesg.head > 0
    /\ klast.offset > 0
    /\ klast.ret > 1
    /\ klast.ret < klast.buf_len
    /\ dmesg.head + klast.offset + klast.ret > BUFFER_CAPACITY

\* a message longer than the capacity was written
LongMessageWritten ==
    /\ klast.op = "push_message"
    /\ klast.buf_len > BUFFER_CAPACITY
    /\ Len(written) > klast.buf_len

\* ------------------------------------------------------------------------
\* Drop of a node that is no longer the child of its parent
\* ------------------------------------------------------------------------
\* a caller drops an Arc it holds; the maps of the parent before it are kept
DropArc(n) ==
    /\ ~hung
    /\ held[n] > 0
    /\ LET P == node[n].parent
           name == node[n].name
       IN Becomes(Release(Cur, n),
                  [NoLast EXCEPT !.op = "drop", !.p = n, !.name = name, !.ret = P,
                                 !.was_mounted = IF P = NoNode THEN NoNode
                                                 ELSE MapGet(node[P].mounted, name),
                                 !.was_opened =
                                     IF P # NoNode /\ Upgrades(Cur, MapGet(node[P].opened, name))
                                     THEN node[P].opened[name] ELSE NoNode])

\* The environment of this specification mounts the disk as the root and at
\* names of the nodes it holds, unmounts, opens children and drops its
\* references.
DropNext ==
    \/ \E P \in Callers : \E name \in MountNames : MountAs(P, "d0", name)
    \/ \E P \in Callers : \E name \in MountNames : UmountAt(P, name)
    \/ \E P \in Callers : OpenChild(P, "f")
    \/ (node[ROOT].meta = "Empty" /\ GlobalMount("d0", RootPath))
    \/ \E n \in Nodes : DropArc(n)

\* the last reference of a node went away whose parent had another node, or
\* none, under its name
DroppedStrayNode ==
    /\ last.op = "drop"
    /\ ~node[last.p].live
    /\ last.ret # NoNode
    /\ last.was_mounted # last.p
    /\ last.was_opened # last.p

\* C34: dropping a node that is no longer its parent's mounted or opened child
\* under its name removes neither the node now mounted nor the live node now
\* opened under that name in the parent.
StrayDropSparesCurrentChild ==
    DroppedStrayNode =>
        /\ ~hung
        /\ MapGet(node[last.ret].mounted, last.name) = last.was_mounted
        /\ last.was_opened # NoNode =>
              MapGet(node[last.ret].opened, last.name) = last.was_opened

\* the drop of a stray node removed the node mounted under its name
StrayDropUnmounts ==
    /\ DroppedStrayNode
    /\ last.was_mounted # NoNode
    /\ MapGet(node[last.ret].mounted, last.name) = NoNode

\* the drop of a stray node removed the live opened node of its name
StrayDropForgetsOpened ==
    /\ DroppedStrayNode
    /\ last.was_opened # NoNode
    /\ node[last.was_opened].live
    /\ MapGet(node[last.ret].opened, last.name) = NoNode

\* ------------------------------------------------------------------------
\* brk_area_idx after areas are mapped and unmapped
\* ------------------------------------------------------------------------
\* brk_area_idx is an index of the area list and names the UserBrk area that
\* starts at brk_start
NamesBrkArea(s) ==
    /\ ~NoBrkArea(s)
    /\ BrkArea(s).area_type = "UserBrk"
    /\ start_addr(BrkArea(s).range.start) = s.brk_start

\* C35: after any sequence of map_area and unmap calls on a memory space built
\* by from_elf, brk_area_idx is a valid index of the area list and the area at
\* that index is the UserBrk area starting at brk_start.
BrkIndexNamesBrkArea == NamesBrkArea(space)

\* an area below the brk area was unmapped and the index is past the list
BrkIndexPastTheList ==
    /\ mlast.op = "unmap"
    /\ mlast.err = NoErr
    /\ NoBrkArea(space)

\* the index markers of a memory space
Markers(s) ==
    [brk_area_idx |-> s.brk_area_idx, brk_start |-> s.brk_start,
     stack_guard_base |-> s.stack_guard_base, stack_range |-> s.stack_range,
     stack_gurad_top |-> s.stack_gurad_top, elf_area |-> s.elf_area]

\* C36: the memory space clone_existing returns carries the index markers of
\* the original, so that brk_page_range on the clone is what it is on the
\* original.
CloneCarriesMarkers ==
    (mlast.op = "clone_existing" /\ ~Halted) =>
        /\ Markers(clone) = Markers(space)
        /\ ~NoBrkArea(clone)
        /\ brk_page_range(clone) = brk_page_range(space)

\* the clone of a space built by from_elf has the markers of empty()
CloneHasEmptyMarkers ==
    /\ mlast.op = "clone_existing"
    /\ ~Halted
    /\ NamesBrkArea(space)
    /\ Markers(clone) = Markers(MemorySpaceEmpty)
    /\ NoBrkArea(clone)

\* ------------------------------------------------------------------------
\* The recorded break and the brk area
\* ------------------------------------------------------------------------
\* the byte at addr lies in a page of the brk area that is mapped to a frame
\* the area owns
InBrkPage(s, addr) ==
    LET vpn == to_floor_page_num(addr)
    IN /\ range_contains(brk_page_range(s), vpn)
       /\ MapGet(BrkArea(s).allocated_frames, vpn) # 0
       /\ Translate(s, vpn) = BrkArea(s).allocated_frames[vpn]

IncreaseBrkFrom(new_end_vpn, debug) ==
    /\ ~Halted
    /\ FreeFrameCount >= BrkGrowth(space, new_end_vpn)
    /\ \E r \in {increase_brk(space, OwnedFrames(clone), new_end_vpn, debug)} :
          /\ space' = r.s
          /\ mlast' = [NoMemOp EXCEPT !.op = "grow", !.arg = new_end_vpn,
                                      !.err = r.err, !.before = space]
    /\ UNCHANGED <<clone, pages>>
    /\ UNCHANGED exceptMem

\* The environment of this specification grows and shrinks the brk area of a
\* memory space built by from_elf and writes to its pages.
GrowNext ==
    \/ \E new_end_vpn \in (BrkBase - 1)..(BrkBase + 2) : \E debug \in BOOLEAN :
          IncreaseBrkFrom(new_end_vpn, debug)
    \/ \E new_end_vpn \in (BrkBase - 1)..(BrkBase + 2) : ShrinkBrk(new_end_vpn)
    \/ \E vpn \in BrkBase..(BrkBase + 1) : \E value \in PageValues :
          WritePageOf(FALSE, vpn, value)

\* the VPNs of [old_end, new_end)
GrownVpns == RangeVpns(from_start_end(brk_page_range(mlast.before).end, mlast.arg))

\* the leaves the call installed
NewLeaves == DOMAIN space.page_table \ DOMAIN mlast.before.page_table

\* the frames the call allocated
NewFrames == OwnedFrames(space) \ OwnedFrames(mlast.before)

\* C38: for every new_end at or above the start of the brk area, also below
\* its current end, increase_brk(new_end) allocates max(0, new_end - old_end)
\* frames, all for VPNs of [old_end, new_end), and maps no VPN outside that
\* interval; for new_end below the start it returns an error and changes
\* nothing.
IncreaseBrkAllocatesTheGrowth ==
    (mlast.op = "grow" /\ NamesBrkArea(mlast.before)) =>
        IF mlast.arg < brk_page_range(mlast.before).start
        THEN mlast.err # NoErr /\ space = mlast.before
        ELSE /\ ~space.panic
             /\ mlast.err = NoErr
             /\ Cardinality(NewFrames) = Cardinality(GrownVpns)
             /\ NewLeaves = GrownVpns
             /\ \A vpn \in GrownVpns :
                   /\ MapGet(BrkArea(space).allocated_frames, vpn) \in NewFrames
                   /\ Translate(space, vpn) = BrkArea(space).allocated_frames[vpn]
             /\ \A vpn \in DOMAIN mlast.before.page_table :
                   Translate(space, vpn) = mlast.before.page_table[vpn]

\* the same for a new_end that is not inside the area, in a space where every
\* leaf belongs to an area
IncreaseBrkAllocatesAboveEnd ==
    (/\ mlast.op = "grow"
     /\ NamesBrkArea(mlast.before)
     /\ NothingOutsideAreas(mlast.before)
     /\ (mlast.arg < brk_page_range(mlast.before).start
         \/ mlast.arg >= brk_page_range(mlast.before).end)) =>
        IncreaseBrkAllocatesTheGrowth

\* a debug build panicked on a new_end inside the area
GrowInsideAreaPanics ==
    /\ mlast.op = "grow"
    /\ mlast.arg >= brk_page_range(mlast.before).start
    /\ mlast.arg < brk_page_range(mlast.before).end
    /\ space.panic

\* ------------------------------------------------------------------------
\* global_umount of the root path without a root mount to undo
\* ------------------------------------------------------------------------
\* global_umount("/", None); the root, its shadowed node and its mounted
\* children before the call are kept
UmountRoot ==
    /\ ~hung
    /\ TotalHeld(Cur) < MaxHeld
    /\ \E r \in {global_umount(Cur, RootPath, NoNode)} :
          /\ r.err # Bound
          /\ Becomes(r.t, [NoLast EXCEPT !.op = "umount_root",
                                         !.ret = r.ret, !.err = r.err,
                                         !.was_mounted = node[ROOT].shadowed,
                                         !.popped = [root |-> ROOT,
                                                     mounted |-> node[ROOT].mounted]])

\* The environment of this specification mounts the disk as the root and at
\* names of the root, unmounts the root whether or not a root mount is there
\* to be undone, and drops its references.
BareNext ==
    \/ UmountRoot
    \/ GlobalMount("d0", RootPath)
    \/ \E name \in MountNames : MountAs(ROOT, "d0", name)
    \/ \E n \in Nodes : ReleaseNode(n)

\* the current root had no shadowed predecessor when the root was unmounted
UnmatchedUmount == last.op = "umount_root" /\ last.was_mounted = NoNode

\* C39: after initialize() the global ROOT always holds a node, and a
\* global_umount of the root path that no earlier global_mount of the root
\* path matches leaves the global root and its mounted children unchanged.
UnmatchedRootUmountKeepsRoot ==
    /\ ROOT # NoNode
    /\ node[ROOT].live
    /\ UnmatchedUmount =>
          /\ ROOT = last.popped.root
          /\ node[ROOT].mounted = last.popped.mounted

\* ROOT always holds a node
RootAlwaysSet == ROOT # NoNode /\ node[ROOT].live

\* the unmatched umount of the initial root made a new empty root
UnmatchedUmountEmptiesRoot ==
    /\ UnmatchedUmount
    /\ last.err = NoErr
    /\ last.popped.root = initialize.root
    /\ ROOT # last.popped.root
    /\ node[ROOT].meta = "Empty"
    /\ node[ROOT].mounted = EmptyMap

\* ------------------------------------------------------------------------
\* Specifications: one per scenario, each over the variables of its subsystem
\* ------------------------------------------------------------------------
\* the state after boot: the directory tree after initialize(), a new RAM file,
\* the memory space of a task
Init == TreeInit /\ RamInit /\ MemInit /\ TaskInit /\ BuilderInit /\ FdInit /\ SchedInit /\ RaceInit /\ KmsgInit

TreeSpec == Init /\ [][TreeNext]_vars

MountSpec == Init /\ [][MountNext]_vars

ResolveSpec == Init /\ [][ResolveNext]_vars

RamSpec == Init /\ [][RamNext]_vars

MemSpec == Init /\ [][MemNext]_vars

BrkSpec == Init /\ [][BrkNext]_vars

ElfSpec == Init /\ [][ElfNext]_vars

StackSpec == Init /\ [][StackNext]_vars

OpenSpec == Init /\ [][OpenNext]_vars

DupSpec == Init /\ [][DupNext]_vars

PipeSpec == Init /\ [][PipeNext]_vars

SchedSpec == Init /\ [][SchedNext]_vars

\* the clock runs and the executor polls a woken future again
SleepSpec ==
    Init /\ [][SchedNext]_vars /\ WF_vars(Tick) /\ WF_vars(NanosleepPoll) /\ WF_vars(Repoll)

RaceSpec == Init /\ [][RaceNext]_vars

DentSpec == Init /\ [][DentNext]_vars

LockSpec == Init /\ [][LockNext]_vars

SysSpec == Init /\ [][SysNext]_vars

RootSpec == Init /\ [][RootNext]_vars

ChildSpec == Init /\ [][ChildNext]_vars

BootSpec == Init /\ [][BootNext]_vars

MkSpec == Init /\ [][MkNext]_vars

KmsgSpec == Init /\ [][KmsgNext]_vars

DropSpec == Init /\ [][DropNext]_vars

GrowSpec == Init /\ [][GrowNext]_vars

BareSpec == Init /\ [][BareNext]_vars

====
